---- MODULE Spec2Model ----
(***************************************************************************)
(* Verification model of the multi-literature verse matcher                *)
(* (src/models/semantic_analyzer_multi.py) and of the text processor it    *)
(* uses (src/models/text_processor.py).                                    *)
(*                                                                         *)
(* Text is a sequence of characters.  Each character is a one-token        *)
(* string; the classes the code distinguishes are kept apart:              *)
(*   - characters of the Tamil block U+0B80..U+0BFF (letters and the Tamil *)
(*     digits, for which str.isdigit() is true),                           *)
(*   - white space (the regular expression class \s: blank and line break),*)
(*   - every other character (ASCII digits, punctuation).                  *)
(* The static word tables of the code (verb endings, character names,      *)
(* gloss dictionary, sentiment words) are represented by short tables over *)
(* this alphabet with the same structure (suffix, substring, membership).  *)
(* The scores of the fuzzywuzzy library are inputs of the search: the      *)
(* model draws them from LibValues, one answer per stored record.         *)
(***************************************************************************)
EXTENDS Integers, Sequences, FiniteSets, TLC



\* ------------------------------------------------------------------------
\* Characters
\* ------------------------------------------------------------------------

\* Letters of the Tamil block.
TamilLetters == {"a", "b", "c", "d", "e", "f", "g", "h", "i", "j", "k", "l",
                 "m", "n", "r", "t", "v", "w"}

\* Digits of the Tamil block (U+0BE6..U+0BEF): Tamil characters AND digits.
TamilDigits == {"T1"}

\* ASCII digits: digits, not Tamil characters.
AsciiDigits == {"1", "2"}

\* Punctuation and every other character outside the Tamil block.
OtherChars == {"!", "[", "."}

\* White space as the class \s and str.strip()/str.split() see it.
WhiteSpace == {" ", "\n"}

\* [஀-௿]
IsTamil(c) == c \in TamilLetters \cup TamilDigits

\* \s
IsSpace(c) == c \in WhiteSpace

\* ------------------------------------------------------------------------
\* String primitives of Python, on sequences of characters
\* ------------------------------------------------------------------------

\* str.startswith
StartsWith(s, p) ==
    /\ Len(p) <= Len(s)
    /\ SubSeq(s, 1, Len(p)) = p

\* str.endswith
EndsWith(s, p) ==
    /\ Len(p) <= Len(s)
    /\ SubSeq(s, Len(s) - Len(p) + 1, Len(s)) = p

\* `p in s` on strings: p occurs in s as a contiguous substring.
Contains(s, p) ==
    \E i \in 1..(Len(s) - Len(p) + 1) : SubSeq(s, i, i + Len(p) - 1) = p

\* str.count('\n')
RECURSIVE CountChar(_, _)
CountChar(s, c) ==
    IF s = << >> THEN 0
    ELSE (IF Head(s) = c THEN 1 ELSE 0) + CountChar(Tail(s), c)

\* str.lstrip() / str.rstrip() / str.strip(): white space removed at the ends.
RECURSIVE LStrip(_)
LStrip(s) ==
    IF s # << >> /\ IsSpace(Head(s)) THEN LStrip(Tail(s)) ELSE s

RECURSIVE RStrip(_)
RStrip(s) ==
    IF s # << >> /\ IsSpace(s[Len(s)]) THEN RStrip(SubSeq(s, 1, Len(s) - 1)) ELSE s

Strip(s) == RStrip(LStrip(s))

\* str.strip(chars): the characters of `chars` removed at both ends.
RECURSIVE StripChars(_, _)
StripChars(s, chars) ==
    IF s # << >> /\ Head(s) \in chars THEN StripChars(Tail(s), chars)
    ELSE IF s # << >> /\ s[Len(s)] \in chars
         THEN StripChars(SubSeq(s, 1, Len(s) - 1), chars)
         ELSE s

\* re.sub(r'\s+', ' ', s): every maximal run of white space becomes one blank.
RECURSIVE CollapseSpaces(_)
CollapseSpaces(s) ==
    IF s = << >> THEN << >>
    ELSE IF IsSpace(Head(s))
         THEN << " " >> \o CollapseSpaces(LStrip(Tail(s)))
         ELSE << Head(s) >> \o CollapseSpaces(Tail(s))

\* str.split(): the maximal runs of non-white-space characters, in order.
RECURSIVE SplitFrom(_, _)
SplitFrom(s, cur) ==
    IF s = << >> THEN (IF cur = << >> THEN << >> ELSE << cur >>)
    ELSE IF IsSpace(Head(s))
         THEN (IF cur = << >> THEN << >> ELSE << cur >>) \o SplitFrom(Tail(s), << >>)
         ELSE SplitFrom(Tail(s), Append(cur, Head(s)))

Split(s) == SplitFrom(s, << >>)

\* str.isdigit(): non-empty and every character is a digit.
IsDigitStr(s) ==
    /\ s # << >>
    /\ \A i \in 1..Len(s) : s[i] \in AsciiDigits \cup TamilDigits

\* set(words)
SeqToSet(ws) == { ws[i] : i \in 1..Len(ws) }

\* The element of a one-element set.  Only({ e : x \in { v } }) is e with x
\* standing for the value v, computed once: an assignment to a local variable.
Only(S) == CHOOSE x \in S : TRUE

\* ------------------------------------------------------------------------
\* TamilTextProcessor (src/models/text_processor.py)
\* ------------------------------------------------------------------------

\* clean_text: "" for an empty text, else white space collapsed and trimmed.
clean_text(text) ==
    IF text = << >> THEN << >> ELSE Strip(CollapseSpaces(text))

\* is_valid_tamil: the text has at least one character of the Tamil block.
is_valid_tamil(text) == \E i \in 1..Len(text) : IsTamil(text[i])

\* A normalizer that trims first, and only then removes the other characters
\* and collapses white space (the three steps in the wrong order).
normalize_text_trim_first(text) ==
    CollapseSpaces(SelectSeq(Strip(text), LAMBDA c : IsTamil(c) \/ IsSpace(c)))

\* normalize_text: remove what is neither Tamil nor white space, collapse
\* white space, trim.
normalize_text(text) ==
    Strip(CollapseSpaces(SelectSeq(text, LAMBDA c : IsTamil(c) \/ IsSpace(c))))

\* A preprocessing pipeline that skips the validation step.
preprocess_without_validation(text) == clean_text(text)

\* preprocess_for_analysis: clean, then "" unless a Tamil character is left.
preprocess_for_analysis(text) ==
    IF ~ is_valid_tamil(clean_text(text)) THEN << >> ELSE clean_text(text)

\* ------------------------------------------------------------------------
\* Static tables of _fuzzy_search_all_books
\* ------------------------------------------------------------------------

\* verb_endings: suffixes of modern verb forms.
verb_endings == { << "v", "n" >>, << "t", "r" >> }

\* time_indicators: words of relative time.
time_indicators == { << "i", "n", "r" >> }

\* modern_words: nouns of contemporary objects.
modern_words == { << "k", "r" >> }

\* kamba_characters as the sentence detection defines it (6 names).
kamba_characters_detect == { << "r", "m" >> }

\* kamba_characters as the loop over the books defines it (the same names and
\* ten more).
kamba_characters_book == { << "r", "m" >>, << "w", "l" >> }

\* The two prefixes that mark a placeholder verse text.
placeholder_prefixes == { << "t", "k" >>, << "[", "t", "k" >> }

\* ------------------------------------------------------------------------
\* Sentence detection and threshold (lines 117-174)
\* ------------------------------------------------------------------------

has_modern_verb(query_words) ==
    \E i \in 1..Len(query_words) :
        \E ending \in verb_endings : EndsWith(query_words[i], ending)

has_time_indicator(query_words) ==
    \E i \in 1..Len(query_words) : query_words[i] \in time_indicators

has_modern_word(query_words) ==
    \E i \in 1..Len(query_words) : query_words[i] \in modern_words

is_modern_sentence(query_words) ==
    \/ has_modern_verb(query_words)
    \/ (has_time_indicator(query_words) /\ Len(query_words) >= 2)
    \/ has_modern_word(query_words)

is_short_query(query_words) == Len(query_words) <= 3

\* query_lines = normalized_query.count('\n') + 1
query_lines(normalized_query) == CountChar(normalized_query, "\n") + 1

looks_like_thirukkural(normalized_query) ==
    /\ query_lines(normalized_query) = 2
    /\ 6 <= Len(Split(normalized_query))
    /\ Len(Split(normalized_query)) <= 10

looks_like_kamba(normalized_query) ==
    \/ Len(Split(normalized_query)) > 10
    \/ query_lines(normalized_query) > 2
    \/ \E char \in kamba_characters_detect : Contains(normalized_query, char)

looks_like_verse(normalized_query) ==
    looks_like_thirukkural(normalized_query) \/ looks_like_kamba(normalized_query)

strict_sentence_mode(normalized_query) ==
    /\ ~ looks_like_verse(normalized_query)
    /\ \/ (is_modern_sentence(Split(normalized_query)) /\ Len(Split(normalized_query)) >= 2)
       \/ is_short_query(Split(normalized_query))

\* The threshold before the loop over the books: banded by the length of the
\* query, overridden by the sentence threshold in strict mode.
base_threshold(normalized_query) ==
    IF strict_sentence_mode(normalized_query) THEN 98
    ELSE IF Len(normalized_query) > 100 THEN 50
    ELSE IF Len(normalized_query) > 50 THEN 48
    ELSE 50

\* A search that takes no query for a verse number.
is_number_search_never(normalized_query) == FALSE

is_number_search(normalized_query) == IsDigitStr(Strip(normalized_query))

\* ------------------------------------------------------------------------
\* Structure detection and boost of one book (lines 191-235)
\* ------------------------------------------------------------------------

is_thirukkural_structure(normalized_query) ==
    /\ query_lines(normalized_query) = 2
    /\ 6 <= Len(Split(normalized_query))
    /\ Len(Split(normalized_query)) <= 10

is_kamba_structure(normalized_query) ==
    \/ \E char \in kamba_characters_book : Contains(normalized_query, char)
    \/ Len(Split(normalized_query)) > 10
    \/ query_lines(normalized_query) > 2

\* kamba_boost, in hundredths (1.35 is 135).
kamba_boost(book_key, normalized_query) ==
    IF book_key = "thirukkural" /\ is_thirukkural_structure(normalized_query) THEN 135
    ELSE IF book_key = "kamba_ramayanam" /\ is_kamba_structure(normalized_query) THEN 130
    ELSE IF book_key = "thirukkural" /\ is_kamba_structure(normalized_query) THEN 75
    ELSE IF book_key = "kamba_ramayanam" /\ is_thirukkural_structure(normalized_query) THEN 75
    ELSE 100

Min(a, b) == IF a <= b THEN a ELSE b
Max(a, b) == IF a >= b THEN a ELSE b

\* The threshold in force while `book_key` is scanned, from the threshold that
\* was in force before (the variable is shared by the two books).
book_threshold(book_key, normalized_query, threshold) ==
    IF book_key = "thirukkural" /\ is_thirukkural_structure(normalized_query)
    THEN Min(threshold, 40)
    ELSE IF book_key = "kamba_ramayanam" /\ is_kamba_structure(normalized_query)
    THEN Min(threshold, 42)
    ELSE threshold

\* ------------------------------------------------------------------------
\* Score of one verse (lines 263-360)
\* ------------------------------------------------------------------------

\* overlap_ratio < num/den, where overlap_ratio = common/words if words else 0.
OverlapBelow(common, words, num, den) ==
    IF words = 0 THEN 0 < num ELSE common * den < num * words

\* int(x) of a floating-point product whose exact value is num/den.  The
\* rounding of the product can leave it just below an exact integer, and then
\* int() gives one less than the exact quotient; `low` says whether it did.
FloatInt(num, den, low) ==
    IF low /\ num % den = 0 /\ num > 0 THEN (num \div den) - 1 ELSE num \div den

\* Substring match (lines 274-294): banded by the length of the query against
\* the length of the verse, then by the word overlap.
containment_score(query_len, verse_len, words, common, low) ==
    IF 5 * query_len >= 4 * verse_len THEN 95
    ELSE IF 2 * query_len >= verse_len THEN 85
    ELSE IF ~ OverlapBelow(common, words, 1, 2) THEN 80
    ELSE FloatInt(70 * common, Max(words, 1), low)

\* A validation whose small penalty of the 40-60% band is 0.35 instead of
\* 0.85: harder than the rescue of the band below it.
fuzzy_validated_harsh_band(fuzzy, query_len, verse_len, words, common, low) ==
    IF fuzzy >= 95 THEN
        IF verse_len > 0 /\ 5 * query_len >= 3 * verse_len THEN fuzzy
        ELSE IF words <= 3
             THEN (IF OverlapBelow(common, words, 1, 1) THEN 0 ELSE fuzzy)
             ELSE (IF OverlapBelow(common, words, 3, 5) THEN 0 ELSE fuzzy)
    ELSE IF words <= 3 THEN
        IF OverlapBelow(common, words, 7, 10)
        THEN FloatInt(fuzzy * common, Max(words, 1), low)
        ELSE fuzzy
    ELSE IF fuzzy >= 85 THEN
        IF OverlapBelow(common, words, 2, 5)
        THEN FloatInt(fuzzy * common * 3, words * 2, low)
        ELSE IF OverlapBelow(common, words, 3, 5)
        THEN (fuzzy * 35) \div 100
        ELSE fuzzy
    ELSE
        IF OverlapBelow(common, words, 1, 2)
        THEN FloatInt(fuzzy * common * 6, words * 5, low)
        ELSE IF OverlapBelow(common, words, 7, 10)
        THEN (fuzzy * 65) \div 100
        ELSE fuzzy

\* A validation that keeps every fuzzy score from 95 on as it is, without the
\* tests of the length and of the word overlap.
fuzzy_validated_unchecked(fuzzy, query_len, verse_len, words, common, low) ==
    IF fuzzy >= 95 THEN fuzzy
    ELSE fuzzy_validated_harsh_band(fuzzy, query_len, verse_len, words, common, low)

\* Fuzzy match (lines 296-360): the fuzzy score max(token_set_ratio,
\* partial_ratio), validated by the length ratio and the word overlap.
fuzzy_validated(fuzzy, query_len, verse_len, words, common, low) ==
    IF fuzzy >= 95 THEN
        IF verse_len > 0 /\ 5 * query_len >= 3 * verse_len THEN fuzzy
        ELSE IF words <= 3
             THEN (IF OverlapBelow(common, words, 1, 1) THEN 0 ELSE fuzzy)
             ELSE (IF OverlapBelow(common, words, 3, 5) THEN 0 ELSE fuzzy)
    ELSE IF words <= 3 THEN
        IF OverlapBelow(common, words, 7, 10)
        THEN FloatInt(fuzzy * common, Max(words, 1), low)
        ELSE fuzzy
    ELSE IF fuzzy >= 85 THEN
        IF OverlapBelow(common, words, 2, 5)
        THEN FloatInt(fuzzy * common * 3, words * 2, low)
        ELSE IF OverlapBelow(common, words, 3, 5)
        THEN (fuzzy * 85) \div 100
        ELSE fuzzy
    ELSE
        IF OverlapBelow(common, words, 1, 2)
        THEN FloatInt(fuzzy * common * 6, words * 5, low)
        ELSE IF OverlapBelow(common, words, 7, 10)
        THEN (fuzzy * 65) \div 100
        ELSE fuzzy

\* The score of a verse that is not equal to the query (lines 271-360): the
\* substring match when one text contains the other, else the fuzzy match.
partial_match_score(contained, fuzzy, query_len, verse_len, words, common, low) ==
    IF contained
    THEN containment_score(query_len, verse_len, words, common, low)
    ELSE fuzzy_validated(fuzzy, query_len, verse_len, words, common, low)

\* chapter_score (lines 363-367): only for a query shorter than 30
\* characters; a partial ratio below 70 counts as 0.
chapter_score(query_length, partial) ==
    IF query_length < 30 THEN (IF partial < 70 THEN 0 ELSE partial) ELSE 0

\* The score of lines 370-375 without the strict-mode rejection.
final_score_unvetoed(verse_score, chapter, strict) == Max(verse_score, chapter)

\* score (lines 370-375): the better of the two scores, forced to 0 in strict
\* mode when it is below 95.
final_score(verse_score, chapter, strict) ==
    IF strict /\ Max(verse_score, chapter) < 95 THEN 0 ELSE Max(verse_score, chapter)

\* ------------------------------------------------------------------------
\* The search over the books (lines 176-397)
\* ------------------------------------------------------------------------

\* A verse record of a database file, with the fields the search reads.
\* verse_number is kept as str() prints it.
VerseRecord(number, verse, chapter, meaning) ==
    [verse_number |-> number, verse |-> verse, chapter |-> chapter, meaning |-> meaning]

NoRecord == VerseRecord(<< >>, << >>, << >>, << >>)

\* None, as a value of the shape of a match.
NoMatch ==
    [some |-> FALSE, record |-> NoRecord, match_score |-> 0, verse_number |-> << >>,
     book_key |-> "none", book |-> "none", boost_applied |-> 0]

\* The placeholder test of line 267.
is_placeholder(verse_text) ==
    \E prefix \in placeholder_prefixes : StartsWith(verse_text, prefix)

\* len(query_words.intersection(verse_words))
CommonWords(normalized_query, normalized_verse) ==
    Cardinality(SeqToSet(Split(normalized_query)) \cap SeqToSet(Split(normalized_verse)))

\* len(set(normalized_query.split()))
DistinctWords(normalized_query) == Cardinality(SeqToSet(Split(normalized_query)))

\* verse_score (lines 263-360).  `boost` is kamba_boost in hundredths, so that
\* 100 * kamba_boost is `boost`; `fuzzy` is max(token_set_ratio, partial_ratio)
\* of the query and the verse.
verse_score(normalized_query, verse_text, boost, fuzzy, low) ==
    IF is_placeholder(verse_text) THEN 0
    ELSE Only({
        IF normalized_query = normalized_verse THEN boost
        ELSE Only({
            partial_match_score(
                \/ Contains(normalized_verse, normalized_query)
                \/ Contains(normalized_query, normalized_verse),
                fuzzy, Len(normalized_query), Len(normalized_verse),
                query_words, common_words, low) :
            query_words \in { DistinctWords(normalized_query) },
            common_words \in { CommonWords(normalized_query, normalized_verse) } }) :
        normalized_verse \in { normalize_text(verse_text) } })

\* The score of one record if the meaning field were searched like the verse
\* text: what lines 262 and 369 say the scorer does not do.
record_score_with_meaning(normalized_query, record, boost, strict, lib) ==
    final_score(Max(verse_score(normalized_query, record.verse, boost,
                                lib.fuzzy, lib.low),
                    IF Contains(normalize_text(record.meaning), normalized_query)
                    THEN 100 ELSE 0),
                chapter_score(Len(normalized_query), lib.partial), strict)

\* The score of one record (lines 253-375).  `lib` holds what the library
\* returns for this record: fuzzy, partial (of the chapter name), and low.
record_score(normalized_query, record, boost, strict, lib) ==
    Only({ final_score(score, chapter_score(Len(normalized_query), lib.partial), strict) :
           score \in { verse_score(normalized_query, record.verse, boost,
                                   lib.fuzzy, lib.low) } })

\* The dictionary returned for a verse-number match (lines 243-249).
NumberMatch(record, book_key, book_name) ==
    [some |-> TRUE, record |-> record, match_score |-> 100,
     verse_number |-> record.verse_number, book_key |-> book_key,
     book |-> book_name, boost_applied |-> 0]

\* best_match as lines 379-384 build it.
ScoredMatch(record, score, book_key, book_name, boost) ==
    [some |-> TRUE, record |-> record, match_score |-> score,
     verse_number |-> record.verse_number, book_key |-> book_key,
     book |-> book_name, boost_applied |-> boost]

\* The loop over the verses if a record that equals the best score replaced
\* the record found before it.
RECURSIVE scan_verses_last_wins(_, _, _, _, _, _, _, _, _, _)
scan_verses_last_wins(normalized_query, book_key, book_name, verses, lib, threshold, boost, strict, i, acc) ==
    IF i > Len(verses) \/ acc.returned THEN acc
    ELSE IF is_number_search(normalized_query)
    THEN IF Strip(normalized_query) = verses[i].verse_number
         THEN [best_match |-> NumberMatch(verses[i], book_key, book_name),
               best_score |-> acc.best_score, returned |-> TRUE]
         ELSE scan_verses_last_wins(normalized_query, book_key, book_name, verses,
                                    lib, threshold, boost, strict, i + 1, acc)
    ELSE Only({
        scan_verses_last_wins(normalized_query, book_key, book_name, verses, lib,
                    threshold, boost, strict, i + 1,
                    IF score > 0 /\ score >= acc.best_score /\ score >= threshold
                    THEN [best_match |-> ScoredMatch(verses[i], score, book_key,
                                                     book_name, boost),
                          best_score |-> score, returned |-> FALSE]
                    ELSE acc) :
        score \in { record_score(normalized_query, verses[i], boost, strict, lib[i]) } })

\* The loop over the verses of one book (lines 237-384), from verse i on.
\* acc = [best_match, best_score, returned]: `returned` is set by the return
\* statement of the number search.
RECURSIVE scan_verses(_, _, _, _, _, _, _, _, _, _)
scan_verses(normalized_query, book_key, book_name, verses, lib, threshold, boost, strict, i, acc) ==
    IF i > Len(verses) \/ acc.returned THEN acc
    ELSE IF is_number_search(normalized_query)
    THEN IF Strip(normalized_query) = verses[i].verse_number
         THEN [best_match |-> NumberMatch(verses[i], book_key, book_name),
               best_score |-> acc.best_score, returned |-> TRUE]
         ELSE scan_verses(normalized_query, book_key, book_name, verses, lib,
                          threshold, boost, strict, i + 1, acc)
    ELSE Only({
        scan_verses(normalized_query, book_key, book_name, verses, lib,
                    threshold, boost, strict, i + 1,
                    IF score > acc.best_score /\ score >= threshold
                    THEN [best_match |-> ScoredMatch(verses[i], score, book_key,
                                                     book_name, boost),
                          best_score |-> score, returned |-> FALSE]
                    ELSE acc) :
        score \in { record_score(normalized_query, verses[i], boost, strict, lib[i]) } })

\* books_to_search (lines 179-182), by key.
books_to_search == << "thirukkural", "kamba_ramayanam" >>

\* One round of the loop over the books (lines 184-384).  state =
\* [threshold, acc]: the threshold variable is shared by the books.  A
\* database without verses is skipped before its threshold is touched.
scan_book(normalized_query, strict, book_key, book_db, lib, state) ==
    IF book_db.verses = << >> THEN state
    ELSE Only({
        [threshold |-> threshold,
         acc |-> scan_verses(normalized_query, book_key, book_db.title,
                             book_db.verses, lib, threshold, boost, strict, 1,
                             state.acc)] :
        threshold \in { book_threshold(book_key, normalized_query, state.threshold) },
        boost \in { kamba_boost(book_key, normalized_query) } })

\* The loop over the books, from book k on.
RECURSIVE scan_books(_, _, _, _, _, _)
scan_books(normalized_query, strict, dbs, lib, k, state) ==
    IF k > Len(books_to_search) THEN state
    ELSE Only({
        scan_books(normalized_query, strict, dbs, lib, k + 1, after) :
        after \in { scan_book(normalized_query, strict, books_to_search[k],
                              dbs[books_to_search[k]], lib[books_to_search[k]],
                              state) } })

\* The search for a normalized query (lines 160-397): the loop over the
\* books, then the final check that discards a match below 95 in strict mode.
search_normalized(normalized_query, strict, dbs, lib) ==
    Only({
        IF found.acc.returned THEN found.acc.best_match
        ELSE IF found.acc.best_match.some /\ strict
                /\ found.acc.best_match.match_score < 95
        THEN NoMatch
        ELSE found.acc.best_match :
        found \in { scan_books(normalized_query, strict, dbs, lib, 1,
                               [threshold |-> base_threshold(normalized_query),
                                acc |-> [best_match |-> NoMatch, best_score |-> 0,
                                         returned |-> FALSE]]) } })

\* _fuzzy_search_all_books (lines 66-397).
fuzzy_search_all_books(query, thirukkural_db, kamba_db, lib) ==
    Only({
        Only({
            search_normalized(normalized_query, strict,
                              [thirukkural |-> thirukkural_db,
                               kamba_ramayanam |-> kamba_db], lib) :
            strict \in { strict_sentence_mode(normalized_query) } }) :
        normalized_query \in { normalize_text(query) } })

\* overlap_ratio (lines 288, 322, 339): len(common_words) / len(query_words)
\* without the test of the divisor.  `raised` is the ZeroDivisionError.
overlap_ratio_unguarded(common, words) ==
    [raised |-> words = 0, num |-> common, den |-> words]

\* overlap_ratio (lines 288, 322, 339) as the fraction num/den: 0 when the
\* query has no word.
overlap_ratio(common, words) ==
    IF words # 0 THEN [raised |-> FALSE, num |-> common, den |-> words]
    ELSE [raised |-> FALSE, num |-> 0, den |-> 1]

\* length_ratio (line 312): 0 when the verse is empty.
length_ratio(query_len, verse_len) ==
    IF verse_len > 0 THEN [raised |-> FALSE, num |-> query_len, den |-> verse_len]
    ELSE [raised |-> FALSE, num |-> 0, den |-> 1]

\* Whether a division of lines 263-360 raises for one record: the divisions
\* are taken on the paths on which the code takes them.
score_raises(normalized_query, verse_text, fuzzy) ==
    IF is_placeholder(verse_text) THEN FALSE
    ELSE Only({
        IF normalized_query = normalized_verse THEN FALSE
        ELSE IF \/ Contains(normalized_verse, normalized_query)
                \/ Contains(normalized_query, normalized_verse)
        THEN IF \/ 5 * Len(normalized_query) >= 4 * Len(normalized_verse)
                \/ 2 * Len(normalized_query) >= Len(normalized_verse)
             THEN FALSE
             ELSE overlap_ratio(CommonWords(normalized_query, normalized_verse),
                                DistinctWords(normalized_query)).raised
        ELSE IF fuzzy >= 95
        THEN \E ratio \in { length_ratio(Len(normalized_query),
                                         Len(normalized_verse)) } :
                \/ ratio.raised
                \/ /\ 5 * ratio.num < 3 * ratio.den
                   /\ overlap_ratio(CommonWords(normalized_query, normalized_verse),
                                    DistinctWords(normalized_query)).raised
        ELSE overlap_ratio(CommonWords(normalized_query, normalized_verse),
                           DistinctWords(normalized_query)).raised :
        normalized_verse \in { normalize_text(verse_text) } })

\* Whether scoring the records of the books raises (lines 184-384): a number
\* search scores no record, and a database without verses is skipped.
search_raises(normalized_query, dbs, lib) ==
    /\ ~ is_number_search(normalized_query)
    /\ \E k \in DOMAIN books_to_search :
          \E i \in DOMAIN dbs[books_to_search[k]].verses :
              score_raises(normalized_query, dbs[books_to_search[k]].verses[i].verse,
                           lib[books_to_search[k]][i].fuzzy)

\* ------------------------------------------------------------------------
\* The fallback analysis (lines 478-509, 607-955)
\* ------------------------------------------------------------------------

\* word_meanings: the static gloss dictionary (word -> meaning).
word_meanings ==
    (<< "a", "m" >> :> "virtue") @@ (<< "n", "m" >> :> "goodness")
        @@ (<< "t", "m" >> :> "evil")

\* positive_words, negative_words, neutral_words of _analyze_sentiment.
positive_words == { << "n", "m" >>, << "i", "n" >> }
negative_words == { << "t", "m" >> }
neutral_words == { << "i", "n", "r" >>, << "c" >> }

\* The characters word.strip('.,!?;:') removes.
gloss_strip_chars == {".", ",", "!", "?", ";", ":"}

\* word_explanations: one entry per word of the text that, stripped of its
\* punctuation, is a key of the dictionary.
RECURSIVE word_explanations(_)
word_explanations(words) ==
    IF words = << >> THEN << >>
    ELSE LET clean_word == StripChars(Head(words), gloss_strip_chars)
         IN  (IF clean_word \in DOMAIN word_meanings
              THEN << [word |-> clean_word, meaning |-> word_meanings[clean_word]] >>
              ELSE << >>) \o word_explanations(Tail(words))

\* The gloss with no content (a result that is not a fallback).
NoGloss == [word_explanations |-> << >>, not_in_database |-> FALSE]

\* _generate_contextual_meaning (lines 607-881): the explanations of the known
\* words; the "this word is not in the database" note is written only when
\* no word of the text is known.
generate_contextual_meaning(text) ==
    Only({ [word_explanations |-> explanations,
            not_in_database |-> explanations = << >>] :
           explanations \in { word_explanations(Split(text)) } })

\* sum(1 for word in words if any(key in word for key in table))
CountWords(words, table) ==
    Cardinality({ i \in 1..Len(words) : \E key \in table : Contains(words[i], key) })

\* round(score, 2) in hundredths, for the exact value num/den: the nearest
\* hundredth; the halves of these sums fall to the lower one.
RoundHundredths(num, den) == 0 - ((den - 2 * num) \div (2 * den))

NoSentiment ==
    [label |-> "none", score |-> 0, positive_words |-> 0, negative_words |-> 0,
     neutral_words |-> 0]

\* The sentiment if a majority of neutral words made the text Neutral.
sentiment_of_neutral_majority(positive_count, negative_count, neutral_count) ==
    [label |-> IF positive_count + negative_count = 0
                  \/ neutral_count > positive_count + negative_count
               THEN "Neutral"
               ELSE IF positive_count > negative_count THEN "Positive"
               ELSE IF negative_count > positive_count THEN "Negative"
               ELSE "Mixed",
     score |-> 50,
     positive_words |-> positive_count,
     negative_words |-> negative_count,
     neutral_words |-> neutral_count]

\* The sentiment of lines 928-955 for the three counts.  score is in
\* hundredths.
sentiment_of(positive_count, negative_count, neutral_count) ==
    [label |-> IF positive_count + negative_count = 0 THEN "Neutral"
               ELSE IF positive_count > negative_count THEN "Positive"
               ELSE IF negative_count > positive_count THEN "Negative"
               ELSE "Mixed",
     score |-> IF positive_count + negative_count = 0 THEN 50
               ELSE IF positive_count > negative_count
               THEN RoundHundredths(70 * (positive_count + negative_count)
                                        + 50 * positive_count,
                                    positive_count + negative_count)
               ELSE IF negative_count > positive_count
               THEN RoundHundredths(30 * (positive_count + negative_count)
                                        - 50 * negative_count,
                                    positive_count + negative_count)
               ELSE 50,
     positive_words |-> positive_count,
     negative_words |-> negative_count,
     neutral_words |-> neutral_count]

\* _analyze_sentiment (lines 883-955).
analyze_sentiment(text) ==
    Only({
        Only({ sentiment_of(positive_count, negative_count, neutral_count) :
               positive_count \in { CountWords(words, positive_words) },
               negative_count \in { CountWords(words, negative_words) },
               neutral_count \in { CountWords(words, neutral_words) } }) :
        words \in { Split(text) } })

\* ------------------------------------------------------------------------
\* analyze (lines 399-476)
\* ------------------------------------------------------------------------

\* A result of analyze.  confidence is in hundredths (match_score / 100).
Result(found, source, number, verse, confidence, gloss, sentiment) ==
    [found |-> found, source |-> source, number |-> number, verse |-> verse,
     confidence |-> confidence, gloss |-> gloss, sentiment |-> sentiment]

\* _generate_generic_analysis (lines 478-509).
generate_generic_analysis(text) ==
    Result(FALSE, "random_text", << >>, << >>, 0,
           generate_contextual_meaning(text), analyze_sentiment(text))

\* The values of the search's local variables that decide how a book is
\* scored: strict_sentence_mode, and kamba_boost and threshold as they are
\* while each book is scanned (a book without verses is skipped: 0, 0).
search_locals(query, thirukkural_db, kamba_db) ==
    Only({
        Only({
            [normalized_query |-> normalized_query,
             strict |-> strict_sentence_mode(normalized_query),
             thirukkural |->
                IF thirukkural_db.verses = << >> THEN [boost |-> 0, threshold |-> 0]
                ELSE [boost |-> kamba_boost("thirukkural", normalized_query),
                      threshold |-> first.threshold],
             kamba_ramayanam |->
                IF kamba_db.verses = << >> THEN [boost |-> 0, threshold |-> 0]
                ELSE [boost |-> kamba_boost("kamba_ramayanam", normalized_query),
                      threshold |->
                         book_threshold("kamba_ramayanam", normalized_query,
                                        first.threshold)]] :
            first \in { [threshold |->
                            IF thirukkural_db.verses = << >>
                            THEN base_threshold(normalized_query)
                            ELSE book_threshold("thirukkural", normalized_query,
                                                base_threshold(normalized_query))] } }) :
        normalized_query \in { normalize_text(query) } })

\* The locals of a call that returns before the search.
NoLocals ==
    [normalized_query |-> << >>, strict |-> FALSE,
     thirukkural |-> [boost |-> 0, threshold |-> 0],
     kamba_ramayanam |-> [boost |-> 0, threshold |-> 0]]

\* analyze, with what a call leaves behind: its result, whether it called
\* _fuzzy_search_all_books (line 427), the match the search returned and the
\* search's locals.
analyze_call(text, thirukkural_db, kamba_db, lib) ==
    IF text = << >> \/ Strip(text) = << >>
    THEN [result |-> Result(FALSE, "unknown", << >>, << >>, 0, NoGloss, NoSentiment),
          searched |-> FALSE, match |-> NoMatch, locals |-> NoLocals]
    ELSE Only({
        IF cleaned_text = << >>
        THEN [result |-> Result(FALSE, "invalid", << >>, << >>, 0, NoGloss,
                                NoSentiment),
              searched |-> FALSE, match |-> NoMatch, locals |-> NoLocals]
        ELSE Only({
            [result |->
                IF match.some
                THEN Result(TRUE, match.book_key, match.verse_number,
                            match.record.verse, match.match_score,
                            NoGloss, NoSentiment)
                ELSE generate_generic_analysis(cleaned_text),
             searched |-> TRUE,
             match |-> match,
             locals |-> search_locals(cleaned_text, thirukkural_db, kamba_db)] :
            match \in { fuzzy_search_all_books(cleaned_text, thirukkural_db,
                                               kamba_db, lib) } }) :
        cleaned_text \in { preprocess_for_analysis(text) } })

\* ------------------------------------------------------------------------
\* Databases and queries the model runs on
\* ------------------------------------------------------------------------

\* Longest input string of the normalizer specification.
MaxLen == 4

\* The characters the enumerated strings are built from: one of each class,
\* both kinds of white space.
NormAlphabet == {"a", "T1", "1", "!", " ", "\n"}

RECURSIVE StringsUpTo(_, _)
StringsUpTo(alphabet, n) ==
    IF n = 0 THEN { << >> }
    ELSE LET shorter == StringsUpTo(alphabet, n - 1)
         IN  shorter \cup { Append(s, c) : s \in shorter, c \in alphabet }

\* ' '.join(words), and the same with a line break between two lines.
RECURSIVE Join(_, _)
Join(words, sep) ==
    IF words = << >> THEN << >>
    ELSE IF Len(words) = 1 THEN Head(words)
    ELSE Head(words) \o << sep >> \o Join(Tail(words), sep)

\* The words of a text written one letter per word, e.g. Letters(<<"a","b">>).
Letters(cs) == [i \in 1..Len(cs) |-> << cs[i] >>]

Rama == << "r", "m" >>
Vali == << "w", "l" >>

\* Thirukkural 1: two lines, seven words.
Kural1 ==
    VerseRecord(<< "1" >>,
                Join(Letters(<< "a", "b", "c", "d" >>), " ") \o << "\n" >>
                    \o Join(Letters(<< "e", "f", "g" >>), " ") \o << "." >>,
                << "h", " ", "j" >>, << "m" >>)

\* Thirukkural 2: two lines, seven words, one of them a character name.
Kural2 ==
    VerseRecord(<< "2" >>,
                Join(<< Rama >> \o Letters(<< "b", "c", "d" >>), " ") \o << "\n" >>
                    \o Join(Letters(<< "e", "f", "h" >>), " "),
                << "h", " ", "j" >>, << "m" >>)

\* Thirukkural 3: two lines, seven words, one of them with a verb ending.
Kural3 ==
    VerseRecord(<< "3" >>,
                Join(Letters(<< "a", "b" >>) \o << << "c", "t", "r" >> >>
                         \o Letters(<< "d" >>), " ") \o << "\n" >>
                    \o Join(Letters(<< "e", "f", "g" >>), " "),
                << "h", " ", "j" >>, << "m" >>)

\* A Thirukkural record whose text is the placeholder.
KuralStub ==
    VerseRecord(<< "2" >>, << "t", "k", " ", "2" >>, << "h", " ", "j" >>, << >>)

\* A Thirukkural record numbered with a Tamil digit.
KuralTamilNumber ==
    VerseRecord(<< "T1" >>, Join(Letters(<< "a", "b", "c", "d" >>), " "),
                << "h" >>, << "m" >>)

\* Kamba Ramayanam 1: three lines, twelve words, with a character name.
Kamba1 ==
    VerseRecord(<< "1" >>,
                Join(<< Rama >> \o Letters(<< "a", "b", "c" >>), " ") \o << "\n" >>
                    \o Join(Letters(<< "d", "e", "f", "g" >>), " ") \o << "\n" >>
                    \o Join(Letters(<< "h", "j", "k", "l" >>), " "),
                << "w" >>, << "m" >>)

\* Kamba Ramayanam 5: one line, five words, no character name.
Kamba5 ==
    VerseRecord(<< "5" >>, Join(Letters(<< "e", "d", "c", "b", "a" >>), " "),
                << "w" >>, << "m" >>)

\* A short Kamba Ramayanam record: two words, the first a character name
\* that only the loop over the books knows.
KambaVali ==
    VerseRecord(<< "7" >>, Vali \o << " ", "b", "c" >>, << "w" >>, << "m" >>)

\* A Thirukkural record whose verse text is empty, and a Kamba record whose
\* verse text has no Tamil character.
KuralBlank == VerseRecord(<< "4" >>, << >>, << "h" >>, << "m" >>)

KambaNoScript == VerseRecord(<< "8" >>, << "1", "2" >>, << "w" >>, << "m" >>)

Database(title, verses) == [title |-> title, verses |-> verses]

\* What _load_database gives for a missing or unreadable file: {}.
EmptyDatabase(default_title) == Database(default_title, << >>)

\* The pairs (thirukkural_db, kamba_db) the analyzer is constructed with.
Databases ==
    { << Database("thirukkural_title", << Kural1 >>),
         Database("kamba_title", << Kamba1 >>) >>,
      << Database("thirukkural_title", << Kural1, Kural2 >>),
         Database("kamba_title", << Kamba5 >>) >>,
      << Database("thirukkural_title", << KuralStub >>),
         Database("kamba_title", << Kamba1 >>) >>,
      << Database("thirukkural_title", << KuralTamilNumber, Kural3 >>),
         EmptyDatabase("kamba_default") >>,
      << Database("thirukkural_title", << Kural1 >>),
         Database("kamba_title", << KambaVali >>) >>,
      << Database("thirukkural_title", << KuralBlank, Kural1 >>),
         Database("kamba_title", << KambaNoScript >>) >>,
      << EmptyDatabase("thirukkural_default"), EmptyDatabase("kamba_default") >> }

\* What the library returns for one record: fuzzy = max(token_set_ratio,
\* partial_ratio) of the query and the verse, partial = partial_ratio of the
\* query and the chapter name, low = the rounding of the float products.
LibValues ==
    { [fuzzy |-> 0, partial |-> 0, low |-> FALSE],
      [fuzzy |-> 60, partial |-> 50, low |-> TRUE],
      [fuzzy |-> 72, partial |-> 0, low |-> FALSE],
      [fuzzy |-> 90, partial |-> 0, low |-> TRUE],
      [fuzzy |-> 96, partial |-> 0, low |-> FALSE],
      [fuzzy |-> 100, partial |-> 0, low |-> FALSE],
      [fuzzy |-> 0, partial |-> 80, low |-> FALSE],
      [fuzzy |-> 0, partial |-> 100, low |-> FALSE] }

\* The characters of a text that are not white space.
CharSet(s) == { s[i] : i \in 1..Len(s) } \ WhiteSpace

\* The answers the library can give for one record.  partial_ratio is 0 when
\* one of its arguments is empty, and 100 only when the shorter argument
\* occurs in the longer one; token_set_ratio and partial_ratio are 100 only
\* when the characters of one text all occur in the other.
lib_answers(normalized_query, record) ==
    Only({
        { answer \in LibValues :
            /\ (normalized_query = << >> \/ normalized_chapter = << >>)
                  => answer.partial = 0
            /\ answer.partial = 100
                  => \/ Contains(normalized_query, normalized_chapter)
                     \/ Contains(normalized_chapter, normalized_query)
            /\ answer.fuzzy = 100
                  => \/ CharSet(normalized_query) \subseteq CharSet(normalized_verse)
                     \/ CharSet(normalized_verse) \subseteq CharSet(normalized_query) } :
        normalized_verse \in { normalize_text(record.verse) },
        normalized_chapter \in { normalize_text(record.chapter) } })

\* The same for the records of one book, in their order.
lib_answers_book(normalized_query, verses) ==
    Only({
        { l \in [1..Len(verses) -> LibValues] :
            \A i \in 1..Len(verses) : l[i] \in answers[i] } :
        answers \in { [i \in 1..Len(verses) |->
                         lib_answers(normalized_query, verses[i])] } })

\* The library's answers for every record of the two databases, for the query
\* that analyze hands to the search.
LibFor(query, db1, db2) ==
    Only({
        [thirukkural : lib_answers_book(normalized_query, db1.verses),
         kamba_ramayanam : lib_answers_book(normalized_query, db2.verses)] :
        normalized_query \in { normalize_text(clean_text(query)) } })

\* Longest of the short queries that are enumerated exhaustively.
MaxQueryLen == 2

\* Queries with a shape: the stored texts, fragments of them, sentences.
ShapedQueries ==
    { Kural1.verse, Kural2.verse, Kural3.verse, KuralStub.verse, Kamba1.verse,
      Kamba5.verse,
      \* a modern sentence: two words, the second with a verb ending
      << "a", " ", "c", "v", "n" >>,
      \* two words of Thirukkural 3 that are not next to each other in it
      << "a", " ", "c", "t", "r" >>,
      \* the same with a word of time, and with a modern noun
      << "i", "n", "r", " ", "a" >>,
      << "k", "r", " ", "a", " ", "b", " ", "c" >>,
      \* two lines, eight words, no character name
      Join(Letters(<< "a", "b", "c", "d" >>), " ") \o << "\n" >>
          \o Join(Letters(<< "e", "f", "g", "h" >>), " "),
      \* five words with a character name; a fragment of Kamba 1
      Join(<< Rama >> \o Letters(<< "a", "b", "c", "d" >>), " "),
      \* two words with a name only the loop over the books knows
      << "w", "l", " ", "b" >>,
      \* four words, none of them special
      Join(Letters(<< "a", "b", "h", "j" >>), " "),
      \* Kamba 5 with five more words after it: the verse is in the query
      Kamba5.verse \o << " " >> \o Join(Letters(<< "f", "g", "h", "j", "k" >>), " "),
      \* eleven words without a character name
      Join(Letters(<< "a", "b", "c", "d", "e", "f", "g", "h", "j", "k", "l" >>), " "),
      \* single words: known to the dictionary, positive, unknown
      << "a", "m" >>, << "n", "m" >>, << "a", "m", "!" >>, << "b" >>,
      \* no script content
      << "1", "2", " ", "!", "!" >> }

Queries == StringsUpTo(NormAlphabet, MaxQueryLen) \cup ShapedQueries

\* ------------------------------------------------------------------------
\* Specification of analyze: the analyzer is constructed with a pair of
\* databases, then analyze is called with a text.
\* ------------------------------------------------------------------------

VARIABLES thirukkural_db, kamba_db, text, lib, result, searched, match, locals, raised, pc

avars ==
    << thirukkural_db, kamba_db, text, lib, result, searched, match, locals, raised, pc >>

NoResult == Result(FALSE, "none", << >>, << >>, 0, NoGloss, NoSentiment)

NoLib == [thirukkural |-> << >>, kamba_ramayanam |-> << >>]

\* One call analyze(t), with the library's answers l.
Analyze ==
    /\ pc = "ready"
    /\ \E t \in Queries :
          \E l \in LibFor(t, thirukkural_db, kamba_db) :
              \E call \in { analyze_call(t, thirukkural_db, kamba_db, l) } :
                  /\ text' = t
                  /\ lib' = l
                  /\ result' = call.result
                  /\ searched' = call.searched
                  /\ match' = call.match
                  /\ locals' = call.locals
                  /\ raised' = (call.searched
                                 /\ search_raises(call.locals.normalized_query,
                                                  [thirukkural |-> thirukkural_db,
                                                   kamba_ramayanam |-> kamba_db], l))
    /\ pc' = "done"
    /\ UNCHANGED << thirukkural_db, kamba_db >>

\* The queries _fuzzy_search_all_books is called with on its own: empty,
\* blank, without a Tamil character, and three texts.
DirectQueries ==
    { << >>, << " " >>, << "1", "2", " ", "!", "!" >>, << "a" >>,
      << "a", " ", "b" >>, Kural1.verse }

\* _fuzzy_search_all_books(query) (lines 66-397), called on its own.
Search ==
    /\ pc = "ready"
    /\ \E q \in DirectQueries :
          \E l \in LibFor(q, thirukkural_db, kamba_db) :
              /\ text' = q
              /\ lib' = l
              /\ result' = NoResult
              /\ searched' = TRUE
              /\ match' = fuzzy_search_all_books(q, thirukkural_db, kamba_db, l)
              /\ locals' = search_locals(q, thirukkural_db, kamba_db)
              /\ raised' = search_raises(normalize_text(q),
                                         [thirukkural |-> thirukkural_db,
                                          kamba_ramayanam |-> kamba_db], l)
    /\ pc' = "searched"
    /\ UNCHANGED << thirukkural_db, kamba_db >>

\* ------------------------------------------------------------------------
\* Specification of the normalizer alone: an input string is drawn, then
\* normalize_text is applied to it, and once more to its output.
\* ------------------------------------------------------------------------

VARIABLES n_in, n_once, n_twice, n_pc

nvars == << n_in, n_once, n_twice, n_pc >>

\* normalize_text applied to the input.
NormalizeOnce ==
    /\ n_pc = "input"
    /\ n_once' = normalize_text(n_in)
    /\ n_pc' = "once"
    /\ UNCHANGED << n_in, n_twice >>

\* normalize_text applied to the output of the first application.
NormalizeAgain ==
    /\ n_pc = "once"
    /\ n_twice' = normalize_text(n_once)
    /\ n_pc' = "twice"
    /\ UNCHANGED << n_in, n_once >>

\* ------------------------------------------------------------------------
\* Specification of the score of one candidate alone: a candidate that is not
\* equal to the query is scored twice, with two numbers of common words.
\* ------------------------------------------------------------------------

\* Largest number of distinct query words of the score specification.
MaxWords == 5

\* Every value the fuzzy score can take.
FuzzyScores == 0..100

\* (len(normalized_query), len(normalized_verse)): a query below 50% of the
\* verse, one between 60% and 80%, one above 80%.
LengthPairs == { << 4, 10 >>, << 7, 10 >>, << 9, 10 >> }

\* What surrounds the verse score: strict mode, and the partial ratio of the
\* chapter name.
PostContexts ==
    { [strict |-> FALSE, partial |-> 0], [strict |-> TRUE, partial |-> 0],
      [strict |-> FALSE, partial |-> 80] }

VARIABLES s_in, s_fewer, s_more, s_pc

svars == << s_in, s_fewer, s_more, s_pc >>

NoScoreInput ==
    [contained |-> FALSE, fuzzy |-> 0, lens |-> << 0, 0 >>, words |-> 0,
     fewer |-> 0, more |-> 0, low_fewer |-> FALSE, low_more |-> FALSE,
     post |-> [strict |-> FALSE, partial |-> 0]]

\* The final score of the candidate with `common` words in common.
candidate_final_score(in, common, low) ==
    Only({ final_score(score, chapter_score(in.lens[1], in.post.partial),
                       in.post.strict) :
           score \in { partial_match_score(in.contained, in.fuzzy, in.lens[1],
                                           in.lens[2], in.words, common, low) } })

\* The candidate is scored with the smaller and with the larger overlap.
ScoreBoth ==
    /\ s_pc = "input"
    /\ s_fewer' = candidate_final_score(s_in, s_in.fewer, s_in.low_fewer)
    /\ s_more' = candidate_final_score(s_in, s_in.more, s_in.low_more)
    /\ s_pc' = "scored"
    /\ UNCHANGED s_in

\* ------------------------------------------------------------------------
\* The other operations of MultiLiteratureSemanticAnalyzer, and a session of
\* calls on one instance
\* ------------------------------------------------------------------------

\* A database file as __init__ finds it.
File(status, content) == [status |-> status, content |-> content]

\* A loader that lets the exception of open or json.load escape.
load_database_raising(file, default_title) ==
    IF file.status = "missing"
    THEN [raised |-> FALSE, db |-> EmptyDatabase(default_title)]
    ELSE IF file.status = "unreadable"
    THEN [raised |-> TRUE, db |-> EmptyDatabase(default_title)]
    ELSE [raised |-> FALSE, db |-> file.content]

\* _load_database (lines 45-64): {} for a path that does not exist and for a
\* file that open or json.load fails on, else the parsed file.  `raised`
\* says whether an exception leaves the function.
load_database(file, default_title) ==
    IF file.status = "missing"
    THEN [raised |-> FALSE, db |-> EmptyDatabase(default_title)]
    ELSE IF file.status = "unreadable"
    THEN [raised |-> FALSE, db |-> EmptyDatabase(default_title)]
    ELSE [raised |-> FALSE, db |-> file.content]

\* A database with the keys 'author' and 'total_verses' in its metadata.
WithMetadata(db, author, total_verses) ==
    [title |-> db.title, verses |-> db.verses, author |-> author,
     total_verses |-> total_verses]

\* d.get(key, default), for a dict d and for the metadata of a database.
dict_get(db, key, default) == IF key \in DOMAIN db THEN db[key] ELSE default

\* A verse number with its Python type: an int and a str are never equal.
IntNumber(digits) == [type |-> "int", digits |-> digits]
StrNumber(chars) == [type |-> "str", digits |-> chars]

\* verse_data.get('verse_number') of a loaded record: json.load gives an int
\* for a JSON number and a str for anything else.
stored_verse_number(record) ==
    IF /\ record.verse_number # << >>
       /\ \A i \in 1..Len(record.verse_number) : record.verse_number[i] \in AsciiDigits
    THEN IntNumber(record.verse_number)
    ELSE StrNumber(record.verse_number)

\* A dict the analyzer can write to: the i-th record a corpus holds.
Stored(book_key, i) == [place |-> "stored", book_key |-> book_key, index |-> i]

\* The same dict under another name: no copy is made.
same_dict(ref) == ref

\* verse_data.copy() and {**verse_data}: a new dict no corpus holds.
copy_of(ref) == [place |-> "fresh", book_key |-> ref.book_key, index |-> ref.index]

\* d[key] = value, as a value.
set_item(record, key, value) ==
    [k \in DOMAIN record \cup {key} |-> IF k = key THEN value ELSE record[k]]

\* One assignment target[key] = value.
Write(target, key, value) == [target |-> target, key |-> key, value |-> value]

\* The corpora after a sequence of assignments: an assignment to a stored
\* dict changes the corpus, one to a fresh dict does not.
RECURSIVE apply_writes(_, _)
apply_writes(dbs, writes) ==
    IF writes = << >> THEN dbs
    ELSE apply_writes(
             IF Head(writes).target.place = "stored"
             THEN [dbs EXCEPT ![Head(writes).target.book_key].verses[Head(writes).target.index] =
                      set_item(@, Head(writes).key, Head(writes).value)]
             ELSE dbs,
             Tail(writes))

\* The position of the first TRUE of a sequence of truth values, 0 if none:
\* where a loop over the records with a test and a return stops.
FirstIndex(tests) ==
    IF \E i \in 1..Len(tests) : tests[i]
    THEN CHOOSE i \in 1..Len(tests) :
             /\ tests[i]
             /\ \A j \in 1..(i - 1) : ~ tests[j]
    ELSE 0

\* None, as a value of the shape of a lookup result.
NoLookup == [some |-> FALSE, record |-> NoRecord, writes |-> << >>]

\* search_by_book_and_number (lines 1198-1219): every key but 'thirukkural'
\* selects the Kamba Ramayanam corpus; the first record whose verse_number
\* equals the argument is copied, and the copy is given the argument as a
\* string and the key.
search_by_book_and_number(book_key, verse_number, dbs) ==
    Only({
        Only({
            IF i = 0 THEN NoLookup
            ELSE [some |-> TRUE,
                  record |-> set_item(set_item(dbs[corpus].verses[i], "verse_number",
                                               verse_number.digits),
                                      "book_key", book_key),
                  writes |-> << Write(copy_of(Stored(corpus, i)), "verse_number",
                                      verse_number.digits),
                                Write(copy_of(Stored(corpus, i)), "book_key",
                                      book_key) >>] :
            i \in { FirstIndex([j \in 1..Len(dbs[corpus].verses) |->
                                    stored_verse_number(dbs[corpus].verses[j])
                                        = verse_number]) } }) :
        corpus \in { IF book_key = "thirukkural" THEN "thirukkural"
                     ELSE "kamba_ramayanam" } })

\* get_book_metadata (lines 1254-1268): the metadata of the corpus a key
\* names, None for any other key; a database loaded as {} has no metadata.
get_book_metadata(book_key, dbs) ==
    IF book_key = "thirukkural"
    THEN [some |-> "author" \in DOMAIN dbs["thirukkural"],
          title |-> dbs["thirukkural"].title]
    ELSE IF book_key = "kamba_ramayanam"
    THEN [some |-> "author" \in DOMAIN dbs["kamba_ramayanam"],
          title |-> dbs["kamba_ramayanam"].title]
    ELSE [some |-> FALSE, title |-> "none"]

\* get_all_books (lines 1221-1252): a new list of new dicts.
get_all_books(dbs) ==
    << [key |-> "thirukkural",
        title |-> dbs.thirukkural.title,
        author |-> dict_get(dbs.thirukkural, "author", "valluvar_default"),
        verse_count |-> Len(dbs.thirukkural.verses)],
       [key |-> "kamba_ramayanam",
        title |-> dbs.kamba_ramayanam.title,
        author |-> dict_get(dbs.kamba_ramayanam, "author", "kambar_default"),
        verse_count |-> Len(dbs.kamba_ramayanam.verses)] >>

\* search_by_author (lines 1270-1292): `author in metadata.get('author', '')`
\* on names that are equal or different as a whole; '' is in every string.
search_by_author(author, dbs) ==
    SelectSeq(<< "thirukkural", "kamba_ramayanam" >>,
              LAMBDA key : \/ author = ""
                           \/ author = dict_get(dbs[key], "author", ""))

\* round(loaded / expected * 100, 2), in hundredths of a percent.
coverage_percent(loaded, expected) ==
    IF expected > 0 THEN (2 * loaded * 10000 + expected) \div (2 * expected) ELSE 0

\* get_statistics (lines 1294-1321).
get_statistics(dbs) ==
    Only({
        [total_books |-> 2,
         total_loaded_verses |-> loaded_verses,
         total_expected_verses |-> expected_verses,
         coverage_percent |-> coverage_percent(loaded_verses, expected_verses),
         books |-> get_all_books(dbs)] :
        loaded_verses \in { Len(dbs.thirukkural.verses)
                                + Len(dbs.kamba_ramayanam.verses) },
        expected_verses \in
            { dict_get(dbs.thirukkural, "total_verses",
                           Len(dbs.thirukkural.verses))
                  + dict_get(dbs.kamba_ramayanam, "total_verses",
                                 Len(dbs.kamba_ramayanam.verses)) } })

\* The dict the search writes its result keys to: a copy of the record it
\* selected (lines 241-249 and 377-378).
match_target(best_match, dbs) ==
    copy_of(Stored(best_match.book_key,
                   FirstIndex([j \in 1..Len(dbs[best_match.book_key].verses) |->
                                  dbs[best_match.book_key].verses[j]
                                      = best_match.record])))

\* The assignments of one call of analyze: the result keys of the search
\* (lines 243-248 for a number lookup, lines 379-384 for a scored match).
analyze_writes(call, dbs) ==
    IF ~ call.match.some THEN << >>
    ELSE Only({
        << Write(target, "match_score", call.match.match_score),
           Write(target, "verse_number", call.match.verse_number),
           Write(target, "book_key", call.match.book_key),
           Write(target, "book", call.match.book) >>
        \o (IF is_number_search(call.locals.normalized_query) THEN << >>
            ELSE << Write(target, "boost_applied", call.match.boost_applied) >>) :
        target \in { match_target(call.match, dbs) } })

\* Largest number of calls of one session.
MaxCalls == 3

\* How alike the library finds two texts that are not equal, at most.
SessionCeilings == { 0, 72, 100 }

\* A state the library could keep between two calls, if it kept one.
fuzz_behaviour_varying(ceiling) == SessionCeilings

\* fuzz.token_set_ratio and fuzz.partial_ratio are functions of their
\* arguments: the library answers at every call as it did at the first.
fuzz_behaviour(ceiling) == { ceiling }

\* The library's answer for one record: the highest it can give that is not
\* above the ceiling.
fuzz_answer(ceiling, normalized_query, record) ==
    Only({
        CHOOSE a \in answers : \A b \in answers : b.fuzzy <= a.fuzzy :
        answers \in { { a \in lib_answers(normalized_query, record) :
                          a.partial = 0 /\ ~ a.low /\ a.fuzzy <= ceiling } } })

\* The library's answers for every record of the corpora.
fuzz(ceiling, query, dbs) ==
    Only({
        [thirukkural |->
            [i \in 1..Len(dbs.thirukkural.verses) |->
                fuzz_answer(ceiling, normalized_query, dbs.thirukkural.verses[i])],
         kamba_ramayanam |->
            [i \in 1..Len(dbs.kamba_ramayanam.verses) |->
                fuzz_answer(ceiling, normalized_query,
                            dbs.kamba_ramayanam.verses[i])]] :
        normalized_query \in { normalize_text(clean_text(query)) } })

\* The pairs of database files a session starts from: each file missing,
\* unreadable or readable.
SessionFiles ==
    { File("missing", EmptyDatabase("thirukkural_default")),
      File("unreadable", EmptyDatabase("thirukkural_default")),
      File("readable",
           WithMetadata(Database("thirukkural_title", << KuralTamilNumber, Kural1 >>),
                        "valluvar", 3)) }
    \X
    { File("missing", EmptyDatabase("kamba_default")),
      File("unreadable", EmptyDatabase("kamba_default")),
      File("readable",
           WithMetadata(Database("kamba_title", << Kamba1 >>), "kambar", 4)) }

\* The arguments of the calls of a session.  texts: empty, without Tamil, a
\* number, a stored text, a word of the dictionary, a fragment of a stored
\* text.  book_keys: the two keys and a misspelt one.
SessionArguments ==
    [texts |-> { << >>, << "1" >>, << "T1" >>, Kural1.verse, << "a", "m" >>,
                 Join(<< Rama >> \o Letters(<< "a", "b", "c" >>), " ") },
     book_keys |-> { "thirukkural", "kamba_ramayanam", "thirukural" },
     numbers |-> { IntNumber(<< "1" >>), IntNumber(<< "5" >>),
                   StrNumber(<< "T1" >>), StrNumber(<< "1" >>) },
     authors |-> { "valluvar", "kambar", "" }]

VARIABLES files, constructed, loaded, corpora, ceiling, memo, last, calls

mvars == << files, constructed, loaded, corpora, ceiling, memo, last, calls >>

NoCall ==
    [op |-> "none", arg |-> << >>, result |-> NoResult, match |-> NoMatch,
     writes |-> << >>]

\* analyze(x) on the instance: the result is returned, the assignments the
\* call makes take effect.
SessionAnalyze ==
    /\ constructed
    /\ calls < MaxCalls
    /\ \E x \in SessionArguments.texts :
          \E c \in fuzz_behaviour(ceiling) :
              \E call \in { analyze_call(x, corpora.thirukkural,
                                         corpora.kamba_ramayanam,
                                         fuzz(c, x, corpora)) } :
                  \E writes \in { analyze_writes(call, corpora) } :
                      /\ last' = [op |-> "analyze", arg |-> x,
                                  result |-> call.result, match |-> call.match,
                                  writes |-> writes]
                      /\ memo' = IF x \in DOMAIN memo THEN memo
                                 ELSE [y \in DOMAIN memo \cup {x} |->
                                          IF y = x
                                          THEN [result |-> call.result,
                                                call |-> calls + 1]
                                          ELSE memo[y]]
                      /\ corpora' = apply_writes(corpora, writes)
    /\ calls' = calls + 1
    /\ UNCHANGED << files, constructed, loaded, ceiling >>

\* search_by_book_and_number(book_key, verse_number) on the instance.
SessionLookup ==
    /\ constructed
    /\ calls < MaxCalls
    /\ \E book_key \in SessionArguments.book_keys :
          \E verse_number \in SessionArguments.numbers :
              \E found \in { search_by_book_and_number(book_key, verse_number,
                                                       corpora) } :
                  /\ last' = [op |-> "search_by_book_and_number",
                              arg |-> << book_key, verse_number >>,
                              result |-> [some |-> found.some,
                                          record |-> found.record],
                              match |-> NoMatch, writes |-> found.writes]
                  /\ corpora' = apply_writes(corpora, found.writes)
    /\ calls' = calls + 1
    /\ UNCHANGED << files, constructed, loaded, ceiling, memo >>

\* get_statistics() on the instance.
SessionStatistics ==
    /\ constructed
    /\ calls < MaxCalls
    /\ last' = [op |-> "get_statistics", arg |-> << >>,
                result |-> get_statistics(corpora), match |-> NoMatch,
                writes |-> << >>]
    /\ calls' = calls + 1
    /\ UNCHANGED << files, constructed, loaded, corpora, ceiling, memo >>

\* get_all_books() on the instance.
SessionBooks ==
    /\ constructed
    /\ calls < MaxCalls
    /\ last' = [op |-> "get_all_books", arg |-> << >>,
                result |-> get_all_books(corpora), match |-> NoMatch,
                writes |-> << >>]
    /\ calls' = calls + 1
    /\ UNCHANGED << files, constructed, loaded, corpora, ceiling, memo >>

\* search_by_author(author) on the instance.
SessionAuthor ==
    /\ constructed
    /\ calls < MaxCalls
    /\ \E author \in SessionArguments.authors :
          last' = [op |-> "search_by_author", arg |-> author,
                   result |-> search_by_author(author, corpora), match |-> NoMatch,
                   writes |-> << >>]
    /\ calls' = calls + 1
    /\ UNCHANGED << files, constructed, loaded, corpora, ceiling, memo >>

\* ------------------------------------------------------------------------
\* SemanticAnalyzer (src/models/semantic_analyzer.py): two threads call
\* analyze on one instance
\* ------------------------------------------------------------------------

\* The default of the parameter `threshold` of _fuzzy_search.
fuzzy_search_threshold == 70

\* self.database after _load_database: the items of the dict in their order,
\* verse number -> record.  A record of the file has no key 'match_score' and
\* no key 'verse_number'.
LoadedRecord(verse) == [verse |-> verse.verse, chapter |-> verse.chapter,
                        meaning |-> verse.meaning]

LoadedDatabase ==
    << [verse_num |-> Kural1.verse_number, verse_data |-> LoadedRecord(Kural1)],
       [verse_num |-> Kural3.verse_number, verse_data |-> LoadedRecord(Kural3)] >>

\* The texts the threads analyze: without Tamil, a stored text, three words
\* that are in no stored text next to each other.
ThreadTexts ==
    { << "1" >>, Kural1.verse, << "a", " ", "b", " ", "h" >> }

Threads == { 1, 2 }

\* What fuzz.partial_ratio can answer: 0 for an empty argument, 100 when one
\* argument occurs in the other, else a value below 100.
partial_ratio_answers(normalized_query, normalized_verse) ==
    IF normalized_query = << >> \/ normalized_verse = << >> THEN { 0 }
    ELSE IF \/ Contains(normalized_verse, normalized_query)
            \/ Contains(normalized_query, normalized_verse)
    THEN { 100 }
    ELSE { 0, 60, 80 }

\* The answers of fuzz.partial_ratio for every text and every record: the
\* library is a function of its arguments.
PartialRatios ==
    { r \in [ThreadTexts -> [1..Len(LoadedDatabase) -> {0, 60, 80, 100}]] :
        \A x \in ThreadTexts : \A i \in 1..Len(LoadedDatabase) :
            r[x][i] \in partial_ratio_answers(
                            normalize_text(preprocess_for_analysis(x)),
                            normalize_text(LoadedDatabase[i].verse_data.verse)) }

\* What analyze returns, with the fields the callers compare.  confidence is
\* in hundredths.
ThreadResult(found, source, number, confidence) ==
    [found |-> found, source |-> source, number |-> number,
     confidence |-> confidence]

\* _fuzzy_search run without interruption, from item i on: the position of
\* best_match (0 for None) and best_score.
RECURSIVE fuzzy_search_from(_, _, _, _, _)
fuzzy_search_from(scores, threshold, n, i, acc) ==
    IF i > n THEN acc
    ELSE fuzzy_search_from(
             scores, threshold, n, i + 1,
             IF scores[i] > acc.best_score /\ scores[i] >= threshold
             THEN [best_match |-> i, best_score |-> scores[i]]
             ELSE acc)

\* analyze run without interruption on the database as loaded.
analyze_alone(x, db, scores) ==
    IF x = << >> \/ Strip(x) = << >>
    THEN ThreadResult(FALSE, "unknown", << >>, 0)
    ELSE IF preprocess_for_analysis(x) = << >>
    THEN ThreadResult(FALSE, "invalid", << >>, 0)
    ELSE Only({
        IF found.best_match = 0
        THEN ThreadResult(FALSE, "generic", << >>, 30)
        ELSE ThreadResult(TRUE, "thirukkural", db[found.best_match].verse_num,
                          found.best_score) :
        found \in { fuzzy_search_from(scores, fuzzy_search_threshold, Len(db), 1,
                                      [best_match |-> 0, best_score |-> 0]) } })

VARIABLES database, ratio, th

cvars == << database, ratio, th >>

\* The locals of a thread before its call.
ThreadStart(x) ==
    [pc |-> "call", text |-> x, i |-> 0, best_score |-> 0, best_match |-> 0,
     number |-> << >>, result |-> ThreadResult(FALSE, "none", << >>, 0)]

\* analyze up to the call of _fuzzy_search (lines 195-211), and the first
\* statements of _fuzzy_search (lines 164-168).
ThreadCall(t) ==
    /\ th[t].pc = "call"
    /\ th' = [th EXCEPT ![t] =
                 IF th[t].text = << >> \/ Strip(th[t].text) = << >>
                 THEN [@ EXCEPT !.pc = "done",
                                !.result = ThreadResult(FALSE, "unknown", << >>, 0)]
                 ELSE IF preprocess_for_analysis(th[t].text) = << >>
                 THEN [@ EXCEPT !.pc = "done",
                                !.result = ThreadResult(FALSE, "invalid", << >>, 0)]
                 ELSE [@ EXCEPT !.pc = "loop", !.i = 1]]
    /\ UNCHANGED << database, ratio >>

\* One item of the loop up to the test of line 177 and the assignments to the
\* locals (lines 178-179); after the last item, the return and the test
\* `if match` of analyze, with the fallback result (lines 183, 213, 229).
ThreadCompare(t) ==
    /\ th[t].pc = "loop"
    /\ th' = [th EXCEPT ![t] =
                 IF th[t].i > Len(database)
                 THEN IF th[t].best_match = 0
                      THEN [@ EXCEPT !.pc = "done",
                                     !.result = ThreadResult(FALSE, "generic", << >>, 30)]
                      ELSE [@ EXCEPT !.pc = "read_number"]
                 ELSE IF /\ ratio[th[t].text][th[t].i] > th[t].best_score
                         /\ ratio[th[t].text][th[t].i] >= fuzzy_search_threshold
                 THEN [@ EXCEPT !.pc = "write_score",
                                !.best_score = ratio[th[t].text][th[t].i],
                                !.best_match = th[t].i]
                 ELSE [@ EXCEPT !.i = th[t].i + 1]]
    /\ UNCHANGED << database, ratio >>

\* best_match['match_score'] = score (line 180): best_match is the stored
\* record itself.
ThreadWriteScore(t) ==
    /\ th[t].pc = "write_score"
    /\ database' = [database EXCEPT ![th[t].best_match].verse_data =
                       set_item(@, "match_score", th[t].best_score)]
    /\ th' = [th EXCEPT ![t].pc = "write_number"]
    /\ UNCHANGED ratio

\* best_match['verse_number'] = verse_num (line 181).
ThreadWriteNumber(t) ==
    /\ th[t].pc = "write_number"
    /\ database' = [database EXCEPT ![th[t].best_match].verse_data =
                       set_item(@, "verse_number",
                                database[th[t].best_match].verse_num)]
    /\ th' = [th EXCEPT ![t].pc = "loop", ![t].i = th[t].i + 1]
    /\ UNCHANGED ratio

\* match.get('verse_number', '') of the result (line 223).
ThreadReadNumber(t) ==
    /\ th[t].pc = "read_number"
    /\ th' = [th EXCEPT ![t].pc = "read_confidence",
                        ![t].number =
                            dict_get(database[th[t].best_match].verse_data,
                                     "verse_number", << >>)]
    /\ UNCHANGED << database, ratio >>

\* match.get('match_score', 0) / 100 of the result (line 227), and the return.
ThreadReadConfidence(t) ==
    /\ th[t].pc = "read_confidence"
    /\ th' = [th EXCEPT ![t].pc = "done",
                        ![t].result =
                            ThreadResult(TRUE, "thirukkural", th[t].number,
                                         dict_get(database[th[t].best_match].verse_data,
                                                  "match_score", 0))]
    /\ UNCHANGED << database, ratio >>

\* ------------------------------------------------------------------------
\* Specification of the fallback sentiment: _analyze_sentiment is called with
\* a text of up to MaxSentimentWords words.
\* ------------------------------------------------------------------------

MaxSentimentWords == 4

\* A positive word, a negative word, a neutral word, a word of no list, and a
\* word that holds a positive and a negative key.
SentimentWords ==
    { << "n", "m" >>, << "t", "m" >>, << "c" >>, << "b" >>,
      << "n", "m", "t", "m" >> }

VARIABLES f_text, f_sentiment, f_pc

fvars == << f_text, f_sentiment, f_pc >>

\* _analyze_sentiment(text) (lines 883-955).
AnalyzeSentiment ==
    /\ f_pc = "input"
    /\ f_sentiment' = analyze_sentiment(f_text)
    /\ f_pc' = "done"
    /\ UNCHANGED f_text

vars == << avars, nvars, svars, mvars, cvars, fvars >>

\* __init__ (lines 15-43): the two databases are loaded.  The normalizer and
\* the candidate score are not exercised on their own.
Init ==
    /\ \E dbs \in Databases :
          /\ thirukkural_db = dbs[1]
          /\ kamba_db = dbs[2]
    /\ text = << >>
    /\ lib = NoLib
    /\ result = NoResult
    /\ searched = FALSE
    /\ match = NoMatch
    /\ locals = NoLocals
    /\ raised = FALSE
    /\ pc = "ready"
    /\ n_in = << >>
    /\ n_once = << >>
    /\ n_twice = << >>
    /\ n_pc = "idle"
    /\ s_in = NoScoreInput
    /\ s_fewer = 0
    /\ s_more = 0
    /\ s_pc = "idle"
    /\ files = << >>
    /\ constructed = FALSE
    /\ loaded = << >>
    /\ corpora = << >>
    /\ ceiling = 0
    /\ memo = << >>
    /\ last = NoCall
    /\ calls = 0
    /\ database = << >>
    /\ ratio = << >>
    /\ th = << >>
    /\ f_text = << >>
    /\ f_sentiment = NoSentiment
    /\ f_pc = "idle"

\* An input string of normalize_text is drawn; the analyzer is not in use.
NormInit ==
    /\ n_in \in StringsUpTo(NormAlphabet, MaxLen)
    /\ n_once = << >>
    /\ n_twice = << >>
    /\ n_pc = "input"
    /\ thirukkural_db = EmptyDatabase("thirukkural_default")
    /\ kamba_db = EmptyDatabase("kamba_default")
    /\ text = << >>
    /\ lib = NoLib
    /\ result = NoResult
    /\ searched = FALSE
    /\ match = NoMatch
    /\ locals = NoLocals
    /\ raised = FALSE
    /\ pc = "idle"
    /\ s_in = NoScoreInput
    /\ s_fewer = 0
    /\ s_more = 0
    /\ s_pc = "idle"
    /\ files = << >>
    /\ constructed = FALSE
    /\ loaded = << >>
    /\ corpora = << >>
    /\ ceiling = 0
    /\ memo = << >>
    /\ last = NoCall
    /\ calls = 0
    /\ database = << >>
    /\ ratio = << >>
    /\ th = << >>
    /\ f_text = << >>
    /\ f_sentiment = NoSentiment
    /\ f_pc = "idle"

\* A candidate on the containment or the fuzzy path is drawn, with two numbers
\* of common words; the analyzer is not in use.
ScoreInit ==
    /\ s_in \in { r \in [contained : BOOLEAN, fuzzy : FuzzyScores, lens : LengthPairs,
                        words : 1..MaxWords, fewer : 0..MaxWords, more : 0..MaxWords,
                        low_fewer : BOOLEAN, low_more : BOOLEAN, post : PostContexts] :
                    /\ r.fewer <= r.more
                    /\ r.more <= r.words
                    /\ (r.contained => r.fuzzy = 0)
                    /\ (r.fewer = r.more => r.low_fewer = r.low_more) }
    /\ s_fewer = 0
    /\ s_more = 0
    /\ s_pc = "input"
    /\ thirukkural_db = EmptyDatabase("thirukkural_default")
    /\ kamba_db = EmptyDatabase("kamba_default")
    /\ text = << >>
    /\ lib = NoLib
    /\ result = NoResult
    /\ searched = FALSE
    /\ match = NoMatch
    /\ locals = NoLocals
    /\ raised = FALSE
    /\ pc = "idle"
    /\ n_in = << >>
    /\ n_once = << >>
    /\ n_twice = << >>
    /\ n_pc = "idle"
    /\ files = << >>
    /\ constructed = FALSE
    /\ loaded = << >>
    /\ corpora = << >>
    /\ ceiling = 0
    /\ memo = << >>
    /\ last = NoCall
    /\ calls = 0
    /\ database = << >>
    /\ ratio = << >>
    /\ th = << >>
    /\ f_text = << >>
    /\ f_sentiment = NoSentiment
    /\ f_pc = "idle"

\* __init__ (lines 24-30) on two database files: both are loaded, and the
\* instance exists unless an exception left a loader.  The library is the
\* same for the whole session.
SessionInit ==
    /\ \E f \in SessionFiles :
          \E l1 \in { load_database(f[1], "thirukkural_default") } :
              \E l2 \in { load_database(f[2], "kamba_default") } :
                  /\ files = [thirukkural |-> f[1], kamba_ramayanam |-> f[2]]
                  /\ constructed = (~ l1.raised /\ ~ l2.raised)
                  /\ loaded = [thirukkural |-> l1.db, kamba_ramayanam |-> l2.db]
                  /\ corpora = [thirukkural |-> l1.db, kamba_ramayanam |-> l2.db]
    /\ ceiling \in SessionCeilings
    /\ memo = << >>
    /\ last = NoCall
    /\ calls = 0
    /\ thirukkural_db = EmptyDatabase("thirukkural_default")
    /\ kamba_db = EmptyDatabase("kamba_default")
    /\ text = << >>
    /\ lib = NoLib
    /\ result = NoResult
    /\ searched = FALSE
    /\ match = NoMatch
    /\ locals = NoLocals
    /\ raised = FALSE
    /\ pc = "idle"
    /\ n_in = << >>
    /\ n_once = << >>
    /\ n_twice = << >>
    /\ n_pc = "idle"
    /\ s_in = NoScoreInput
    /\ s_fewer = 0
    /\ s_more = 0
    /\ s_pc = "idle"
    /\ database = << >>
    /\ ratio = << >>
    /\ th = << >>
    /\ f_text = << >>
    /\ f_sentiment = NoSentiment
    /\ f_pc = "idle"

\* A SemanticAnalyzer with its database loaded, and two threads about to call
\* analyze, each with a text.
ConcInit ==
    /\ database = LoadedDatabase
    /\ ratio \in PartialRatios
    /\ th \in [Threads -> { ThreadStart(x) : x \in ThreadTexts }]
    /\ thirukkural_db = EmptyDatabase("thirukkural_default")
    /\ kamba_db = EmptyDatabase("kamba_default")
    /\ text = << >>
    /\ lib = NoLib
    /\ result = NoResult
    /\ searched = FALSE
    /\ match = NoMatch
    /\ locals = NoLocals
    /\ raised = FALSE
    /\ pc = "idle"
    /\ n_in = << >>
    /\ n_once = << >>
    /\ n_twice = << >>
    /\ n_pc = "idle"
    /\ s_in = NoScoreInput
    /\ s_fewer = 0
    /\ s_more = 0
    /\ s_pc = "idle"
    /\ files = << >>
    /\ constructed = FALSE
    /\ loaded = << >>
    /\ corpora = << >>
    /\ ceiling = 0
    /\ memo = << >>
    /\ last = NoCall
    /\ calls = 0
    /\ f_text = << >>
    /\ f_sentiment = NoSentiment
    /\ f_pc = "idle"

\* A text of _analyze_sentiment is drawn; the analyzer is not in use.
SentimentInit ==
    /\ f_text \in { Join(words, " ") :
                       words \in StringsUpTo(SentimentWords, MaxSentimentWords) }
    /\ f_sentiment = NoSentiment
    /\ f_pc = "input"
    /\ thirukkural_db = EmptyDatabase("thirukkural_default")
    /\ kamba_db = EmptyDatabase("kamba_default")
    /\ text = << >>
    /\ lib = NoLib
    /\ result = NoResult
    /\ searched = FALSE
    /\ match = NoMatch
    /\ locals = NoLocals
    /\ raised = FALSE
    /\ pc = "idle"
    /\ n_in = << >>
    /\ n_once = << >>
    /\ n_twice = << >>
    /\ n_pc = "idle"
    /\ s_in = NoScoreInput
    /\ s_fewer = 0
    /\ s_more = 0
    /\ s_pc = "idle"
    /\ files = << >>
    /\ constructed = FALSE
    /\ loaded = << >>
    /\ corpora = << >>
    /\ ceiling = 0
    /\ memo = << >>
    /\ last = NoCall
    /\ calls = 0
    /\ database = << >>
    /\ ratio = << >>
    /\ th = << >>

Next ==
    \/ Analyze /\ UNCHANGED << nvars, svars, mvars, cvars, fvars >>
    \/ Search /\ UNCHANGED << nvars, svars, mvars, cvars, fvars >>

Spec == Init /\ [][Next]_vars

NormNext ==
    \/ NormalizeOnce /\ UNCHANGED << avars, svars, mvars, cvars, fvars >>
    \/ NormalizeAgain /\ UNCHANGED << avars, svars, mvars, cvars, fvars >>

SpecNorm == NormInit /\ [][NormNext]_vars

ScoreNext == ScoreBoth /\ UNCHANGED << avars, nvars, mvars, cvars, fvars >>

SpecScore == ScoreInit /\ [][ScoreNext]_vars

SessionNext ==
    \/ SessionAnalyze /\ UNCHANGED << avars, nvars, svars, cvars, fvars >>
    \/ SessionLookup /\ UNCHANGED << avars, nvars, svars, cvars, fvars >>
    \/ SessionStatistics /\ UNCHANGED << avars, nvars, svars, cvars, fvars >>
    \/ SessionBooks /\ UNCHANGED << avars, nvars, svars, cvars, fvars >>
    \/ SessionAuthor /\ UNCHANGED << avars, nvars, svars, cvars, fvars >>

SpecSession == SessionInit /\ [][SessionNext]_vars

\* The scheduler runs one statement of one thread at a time, in any order.
ConcNext ==
    \E t \in Threads :
        \/ ThreadCall(t) /\ UNCHANGED << avars, nvars, svars, mvars, fvars >>
        \/ ThreadCompare(t) /\ UNCHANGED << avars, nvars, svars, mvars, fvars >>
        \/ ThreadWriteScore(t) /\ UNCHANGED << avars, nvars, svars, mvars, fvars >>
        \/ ThreadWriteNumber(t) /\ UNCHANGED << avars, nvars, svars, mvars, fvars >>
        \/ ThreadReadNumber(t) /\ UNCHANGED << avars, nvars, svars, mvars, fvars >>
        \/ ThreadReadConfidence(t) /\ UNCHANGED << avars, nvars, svars, mvars, fvars >>

SpecConc == ConcInit /\ [][ConcNext]_vars

SentimentNext ==
    AnalyzeSentiment /\ UNCHANGED << avars, nvars, svars, mvars, cvars >>

SpecSentiment == SentimentInit /\ [][SentimentNext]_vars

\* ------------------------------------------------------------------------
\* Properties
\* ------------------------------------------------------------------------

\* The records of a database, as a set.
RecordsOf(db) == { db.verses[i] : i \in 1..Len(db.verses) }

HoldsNumber(db, number) == \E r \in RecordsOf(db) : r.verse_number = number

\* The normalized texts of the stored verses (a placeholder record holds no
\* verse text).
StoredVerseTexts ==
    { normalize_text(r.verse) :
        r \in { x \in RecordsOf(thirukkural_db) \cup RecordsOf(kamba_db) :
                  ~ is_placeholder(x.verse) } }

AllSpace(t) == \A i \in 1..Len(t) : IsSpace(t[i])

NoTamil(t) == \A i \in 1..Len(t) : ~ IsTamil(t[i])

NoCharacterName(t) == \A name \in kamba_characters_book : ~ Contains(t, name)

\* C1: a query that is only a verse number held by a corpus is found, with
\* confidence 1.0, in a corpus that holds that number.
C1_NumberQueryFound ==
    (pc = "done" /\ IsDigitStr(text)
        /\ (HoldsNumber(thirukkural_db, text) \/ HoldsNumber(kamba_db, text)))
    => /\ result.found
       /\ result.confidence = 100
       /\ \/ (result.source = "thirukkural" /\ HoldsNumber(thirukkural_db, text))
          \/ (result.source = "kamba_ramayanam" /\ HoldsNumber(kamba_db, text))

\* C2: a query whose normalized form equals the normalized text of a stored
\* verse is found with confidence at least 0.95.
C2_ExactTextFound ==
    (pc = "done" /\ normalize_text(text) # << >>
        /\ normalize_text(text) \in StoredVerseTexts)
    => (result.found /\ result.confidence >= 95)

\* C3: a query of at least 2 words, one of them with a modern verb ending,
\* that is not verse-shaped and is not itself a stored verse, is not found.
C3_ModernSentenceNotFound ==
    (pc = "done" /\ searched
        /\ Len(Split(normalize_text(text))) >= 2
        /\ Len(Split(normalize_text(text))) <= 10
        /\ has_modern_verb(Split(normalize_text(text)))
        /\ CountChar(Strip(text), "\n") = 0
        /\ NoCharacterName(text)
        /\ normalize_text(text) \notin StoredVerseTexts)
    => ~ result.found

\* C4: a query of exactly 2 lines and 8 words without a character name gets
\* the short-aphorism boost 1.35 and a threshold of at most 40 against
\* Thirukkural, and the mismatch penalty 0.75 against Kamba Ramayanam.
C4_ShortAphorismBoost ==
    (pc = "done" /\ searched
        /\ CountChar(text, "\n") = 1
        /\ Len(Split(text)) = 8
        /\ Len(Split(normalize_text(text))) = 8
        /\ NoCharacterName(text))
    => /\ thirukkural_db.verses # << >>
            => (locals.thirukkural.boost = 135 /\ locals.thirukkural.threshold <= 40)
       /\ kamba_db.verses # << >> => locals.kamba_ramayanam.boost = 75

\* The candidates of one book in the last call: book, final score, boost and
\* the threshold in force for every record of the book.
CandidatesOf(book_key, db) ==
    { [book_key |-> book_key,
       score |-> record_score(locals.normalized_query, db.verses[i],
                              locals[book_key].boost, locals.strict, lib[book_key][i]),
       boost |-> locals[book_key].boost,
       threshold |-> locals[book_key].threshold] : i \in 1..Len(db.verses) }

\* Those that cleared the threshold of their book.
Cleared(candidates) == { c \in candidates : c.score > 0 /\ c.score >= c.threshold }

\* C5: when both corpora have a candidate that clears its threshold, the
\* match returned is the one with the largest boosted score (final score
\* times the boost of its corpus).
C5_BoostedWinner ==
    (pc = "done" /\ searched /\ ~ is_number_search(locals.normalized_query)
        /\ Cleared(CandidatesOf("thirukkural", thirukkural_db)) # {}
        /\ Cleared(CandidatesOf("kamba_ramayanam", kamba_db)) # {})
    => /\ match.some
       /\ \A c \in Cleared(CandidatesOf("thirukkural", thirukkural_db))
                      \cup Cleared(CandidatesOf("kamba_ramayanam", kamba_db)) :
              match.match_score * match.boost_applied >= c.score * c.boost

\* C6: the confidence of every result with found=true lies in 0.0 .. 1.0.
C6_ConfidenceInRange ==
    (pc = "done" /\ result.found)
    => (0 <= result.confidence /\ result.confidence <= 100)

\* C8: for a single word of the gloss dictionary that matches no verse, the
\* fallback gloss has the word's meaning and the "not in database" note, and
\* the sentiment label is Neutral.
C8_DictionaryWordFallback ==
    (pc = "done" /\ searched /\ ~ result.found
        /\ Len(Split(text)) = 1
        /\ Split(text)[1] \in DOMAIN word_meanings)
    => /\ \E i \in 1..Len(result.gloss.word_explanations) :
            /\ result.gloss.word_explanations[i].word = Split(text)[1]
            /\ result.gloss.word_explanations[i].meaning = word_meanings[Split(text)[1]]
       /\ result.gloss.not_in_database
       /\ result.sentiment.label = "Neutral"

\* C7: an empty or blank text gives found=false with source "unknown", a text
\* without a Tamil character gives found=false with source "invalid", and
\* neither is searched for.
C7_BadInputRejected ==
    pc = "done" =>
        /\ AllSpace(text)
              => (~ result.found /\ result.source = "unknown" /\ ~ searched)
        /\ (~ AllSpace(text) /\ NoTamil(text))
              => (~ result.found /\ result.source = "invalid" /\ ~ searched)

C7_Witness ==
    /\ pc = "done"
    /\ text = << "1", "2", " ", "!", "!" >>
    /\ result.source = "invalid"
    /\ ~ searched

\* C9: normalize_text is idempotent, and maps the empty string to the empty
\* string.
C9_NormalizeIdempotent ==
    /\ n_pc = "twice" => n_twice = n_once
    /\ (n_pc \in {"once", "twice"} /\ n_in = << >>) => n_once = << >>

C9_Witness ==
    /\ n_pc = "twice"
    /\ n_in = << "!", " ", "a", "\n" >>
    /\ n_once = << "a" >>
    /\ n_twice = << "a" >>

\* C10: with everything else fixed, the final score of a candidate with
\* fewer query words in common is never greater than with more.
C10_ScoreMonotone == s_pc = "scored" => s_fewer <= s_more

C10_Witness ==
    /\ s_pc = "scored"
    /\ ~ s_in.contained
    /\ s_in.fuzzy = 90
    /\ s_in.words = 4
    /\ s_in.fewer = 1
    /\ s_in.more = 2
    /\ s_fewer = 33
    /\ s_more = 76

\* C16: the decision rule of the classifier, in its order.  A query that is
\* short-aphorism-shaped (exactly 2 lines and 6-10 words) or
\* long-narrative-shaped (named-entity cue, more than 10 words, or more than
\* 2 lines) is not in strict mode, whatever its lexical cues; any other query
\* is in strict mode exactly when it has at least 2 words and a verb-ending,
\* time-word or modern-noun cue, or has at most 3 words.  The lines are the
\* lines of the text given to analyze.
C16_DecisionRule ==
    (pc = "done" /\ searched)
    => locals.strict
          = IF \/ /\ CountChar(Strip(text), "\n") + 1 = 2
                   /\ 6 <= Len(Split(normalize_text(text)))
                   /\ Len(Split(normalize_text(text))) <= 10
                \/ \E char \in kamba_characters_detect :
                       Contains(normalize_text(text), char)
                \/ Len(Split(normalize_text(text))) > 10
                \/ CountChar(Strip(text), "\n") + 1 > 2
            THEN FALSE
            ELSE \/ /\ Len(Split(normalize_text(text))) >= 2
                    /\ \/ has_modern_verb(Split(normalize_text(text)))
                       \/ has_time_indicator(Split(normalize_text(text)))
                       \/ has_modern_word(Split(normalize_text(text)))
                 \/ Len(Split(normalize_text(text))) <= 3

\* C17: in strict mode no text-scored match is accepted with a score below
\* 98.  When the classifier has set strict mode and the search returns a
\* match that is not the answer of a number lookup, the score of the match is
\* at least 98.
C17_StrictNeedsNearPerfect ==
    (pc = "done" /\ searched /\ locals.strict
        /\ ~ is_number_search(locals.normalized_query)
        /\ match.some)
    => match.match_score >= 98

\* C18: the shape verdict is computed once and every corpus scorer uses it.
\* For every query the long-narrative flag inside the loop over the books
\* equals the long-narrative flag the classifier used for strict mode, and so
\* does the named-entity cue behind it; the narrative boost of the Kamba
\* Ramayanam corpus is applied exactly to the queries the classifier found
\* long-narrative-shaped.
C18_OneShapeVerdict ==
    (pc = "done" /\ searched)
    => /\ is_kamba_structure(locals.normalized_query)
             = looks_like_kamba(locals.normalized_query)
       /\ (\E char \in kamba_characters_book :
               Contains(locals.normalized_query, char))
             = (\E char \in kamba_characters_detect :
                   Contains(locals.normalized_query, char))
       /\ kamba_db.verses # << >>
             => ((locals.kamba_ramayanam.boost = 130)
                    = looks_like_kamba(locals.normalized_query))

\* The score the containment path is to give: banded by the length of the
\* shorter text against the length of the longer one, then by the share of
\* the distinct query words that occur in the verse.
ContainmentBand(normalized_query, normalized_verse, low) ==
    IF 5 * Min(Len(normalized_query), Len(normalized_verse))
          >= 4 * Max(Len(normalized_query), Len(normalized_verse)) THEN 95
    ELSE IF 2 * Min(Len(normalized_query), Len(normalized_verse))
               >= Max(Len(normalized_query), Len(normalized_verse)) THEN 85
    ELSE IF 2 * CommonWords(normalized_query, normalized_verse)
               >= DistinctWords(normalized_query) THEN 80
    ELSE FloatInt(70 * CommonWords(normalized_query, normalized_verse),
                  Max(DistinctWords(normalized_query), 1), low)

\* The records of a book whose verse score differs from ContainmentBand
\* although one of query and verse holds the other and they are not equal.
OffBand(book_key, db) ==
    { i \in 1..Len(db.verses) :
        /\ ~ is_placeholder(db.verses[i].verse)
        /\ locals.normalized_query # normalize_text(db.verses[i].verse)
        /\ \/ Contains(normalize_text(db.verses[i].verse), locals.normalized_query)
           \/ Contains(locals.normalized_query, normalize_text(db.verses[i].verse))
        /\ verse_score(locals.normalized_query, db.verses[i].verse,
                       locals[book_key].boost, lib[book_key][i].fuzzy,
                       lib[book_key][i].low)
              # ContainmentBand(locals.normalized_query,
                                normalize_text(db.verses[i].verse),
                                lib[book_key][i].low) }

\* C19: on the containment path the score is banded by the ratio of the
\* shorter text's length to the longer text's length (95 from 80%, 85 from
\* 50%, else 80 when at least half of the distinct query words occur in the
\* verse, else 70 times the overlap ratio), whether the query is in the verse
\* or the verse is in the query.
C19_ContainmentBands ==
    (pc = "done" /\ searched /\ ~ is_number_search(locals.normalized_query))
    => /\ OffBand("thirukkural", thirukkural_db) = {}
       /\ OffBand("kamba_ramayanam", kamba_db) = {}

\* C20: on the fuzzy path a fuzzy score of at least 95 is kept unchanged when
\* the query is at least 60% as long as the verse; a shorter query keeps it
\* only with a word overlap of 100% when it has at most 3 distinct words, or
\* of at least 60% when it has more, and scores 0 in every other case.  (The
\* chapter name does not resemble the query, so that the final score is the
\* verse score.)
C20_NearPerfectFuzzy ==
    (s_pc = "scored" /\ ~ s_in.contained /\ s_in.fuzzy >= 95
        /\ s_in.post.partial = 0)
    => /\ s_fewer
             = IF 5 * s_in.lens[1] >= 3 * s_in.lens[2] THEN s_in.fuzzy
               ELSE IF s_in.words <= 3
                    THEN (IF s_in.fewer = s_in.words THEN s_in.fuzzy ELSE 0)
                    ELSE (IF 5 * s_in.fewer >= 3 * s_in.words THEN s_in.fuzzy ELSE 0)
       /\ s_more
             = IF 5 * s_in.lens[1] >= 3 * s_in.lens[2] THEN s_in.fuzzy
               ELSE IF s_in.words <= 3
                    THEN (IF s_in.more = s_in.words THEN s_in.fuzzy ELSE 0)
                    ELSE (IF 5 * s_in.more >= 3 * s_in.words THEN s_in.fuzzy ELSE 0)

\* A query of 5 distinct words, 40% as long as the verse, with a fuzzy score
\* of 96: with 2 words in common it scores 0, with 3 it keeps the 96.
C20_Witness ==
    /\ s_pc = "scored"
    /\ ~ s_in.contained
    /\ s_in.fuzzy = 96
    /\ s_in.post.partial = 0
    /\ s_in.lens = << 4, 10 >>
    /\ s_in.words = 5
    /\ s_in.fewer = 2
    /\ s_in.more = 3
    /\ s_fewer = 0
    /\ s_more = 96
    /\ C20_NearPerfectFuzzy

\* ------------------------------------------------------------------------
\* Properties of the search: meaning, strict mode, placeholders, numbers
\* ------------------------------------------------------------------------

\* The database with the meaning of every record replaced.
with_meaning(db, meaning) ==
    Database(db.title, [i \in DOMAIN db.verses |->
                            [db.verses[i] EXCEPT !.meaning = meaning]])

\* The meanings the records are given: none, the text of the query itself,
\* and a text of one character name.
OtherMeanings == { << >>, preprocess_for_analysis(text), Rama }

\* C21: the meaning field never influences matching.  For two corpora that
\* differ only in the meanings of their records, the search selects for every
\* query the record at the same position, with the same match_score, book_key
\* and boost.
C21_MeaningIgnored ==
    (pc = "done" /\ searched)
    => \A meaning \in OtherMeanings :
          fuzzy_search_all_books(preprocess_for_analysis(text),
                                 with_meaning(thirukkural_db, meaning),
                                 with_meaning(kamba_db, meaning), lib)
              = IF match.some
                THEN [match EXCEPT !.record = [@ EXCEPT !.meaning = meaning]]
                ELSE NoMatch

\* A query scored against the text of the records, matching a record whose
\* meaning is none of the meanings the records are given.
C21_Witness ==
    /\ pc = "done"
    /\ searched
    /\ ~ is_number_search(locals.normalized_query)
    /\ match.some
    /\ match.record.meaning \notin OtherMeanings
    /\ C21_MeaningIgnored

\* The candidates of both corpora.
AllCandidates ==
    CandidatesOf("thirukkural", thirukkural_db)
        \cup CandidatesOf("kamba_ramayanam", kamba_db)

\* C22: the strict-mode veto.  In strict mode every candidate whose final
\* score is below 95 has the score 0, the search returns no text-scored match
\* below 95, and every match analyze reports has confidence >= 0.95.
C22_StrictVeto ==
    (pc = "done" /\ searched /\ locals.strict)
    => /\ ~ is_number_search(locals.normalized_query)
          => \A c \in AllCandidates : c.score = 0 \/ c.score >= 95
       /\ match.some => match.match_score >= 95
       /\ result.found => result.confidence >= 95

\* A strict-mode query for which a record would score 50 to 94 without the
\* veto, and which is reported as not found.
C22_Witness ==
    /\ pc = "done"
    /\ searched
    /\ locals.strict
    /\ ~ result.found
    /\ \E i \in DOMAIN thirukkural_db.verses :
          /\ record_score(locals.normalized_query, thirukkural_db.verses[i],
                          locals["thirukkural"].boost, FALSE,
                          lib["thirukkural"][i]) \in 50..94
          /\ record_score(locals.normalized_query, thirukkural_db.verses[i],
                          locals["thirukkural"].boost, TRUE,
                          lib["thirukkural"][i]) = 0
    /\ C22_StrictVeto

\* C23: placeholder records are skipped by the scorer.  For every non-numeric
\* query, a record whose text begins with the missing-content marker is never
\* returned as the match, whatever its chapter label is.
C23_PlaceholderNeverReturned ==
    (pc = "done" /\ searched /\ ~ is_number_search(locals.normalized_query)
        /\ match.some)
    => ~ is_placeholder(match.record.verse)

\* The positions of the records of a database stored under a number.
NumberedAt(db, number) ==
    { i \in DOMAIN db.verses : db.verses[i].verse_number = number }

\* The first record of a database stored under a number.
FirstNumbered(db, number) ==
    db.verses[CHOOSE i \in NumberedAt(db, number) :
                  \A j \in NumberedAt(db, number) : i <= j]

\* C24: for a query whose normalized form is a pure-numeral string the search
\* is a verse-number lookup only.  It returns the first record, in search
\* order, whose verse_number as a string equals the query, with match_score
\* 100, and no match otherwise; no text score is computed and the strict-mode
\* veto does not apply.
C24_NumberLookupOnly ==
    (pc = "done" /\ searched /\ IsDigitStr(Strip(locals.normalized_query)))
    => match
         = IF NumberedAt(thirukkural_db, Strip(locals.normalized_query)) # {}
           THEN NumberMatch(FirstNumbered(thirukkural_db,
                                          Strip(locals.normalized_query)),
                            "thirukkural", thirukkural_db.title)
           ELSE IF NumberedAt(kamba_db, Strip(locals.normalized_query)) # {}
           THEN NumberMatch(FirstNumbered(kamba_db,
                                          Strip(locals.normalized_query)),
                            "kamba_ramayanam", kamba_db.title)
           ELSE NoMatch

\* A query in Tamil digits, taken in strict mode, that is the number of a
\* stored record.
C24_Witness ==
    /\ pc = "done"
    /\ searched
    /\ IsDigitStr(Strip(locals.normalized_query))
    /\ match.some
    /\ match.match_score = 100
    /\ match.verse_number = Strip(locals.normalized_query)
    /\ locals.strict
    /\ C24_NumberLookupOnly

\* ------------------------------------------------------------------------
\* Properties of a session of calls (SpecSession)
\* ------------------------------------------------------------------------

C12_CorporaUnchanged ==
    /\ corpora = loaded
    /\ \A i \in 1..Len(last.writes) : last.writes[i].target.place = "fresh"

\* analyze has returned a scored match, with its five result keys written.
C12_Witness ==
    /\ last.op = "analyze"
    /\ last.result.found
    /\ Len(last.writes) = 5
    /\ { last.writes[i].key : i \in 1..5 }
           = { "match_score", "verse_number", "book_key", "book", "boost_applied" }
    /\ C12_CorporaUnchanged

\* C14: a missing or unreadable database file degrades to an empty corpus and
\* the analyzer stays usable.  The instance is constructed and the corpus of
\* such a file is loaded without verses; a corpus without verses never gives
\* the match of a search; and with both corpora empty analyze returns the
\* fallback result (found = false, source "random_text") for every text with
\* a Tamil character.
C14_MissingFileEmptyCorpus ==
    /\ \A b \in DOMAIN files :
           files[b].status \in { "missing", "unreadable" }
               => constructed /\ loaded[b].verses = << >>
    /\ \A b \in DOMAIN corpora :
           (last.op = "analyze" /\ corpora[b].verses = << >>)
               => ~ (last.match.some /\ last.match.book_key = b)
    /\ (/\ last.op = "analyze"
        /\ \A b \in DOMAIN corpora : corpora[b].verses = << >>
        /\ is_valid_tamil(last.arg))
           => ~ last.result.found /\ last.result.source = "random_text"

\* One file is unreadable and the other is missing, and analyze has returned
\* the fallback result for a Tamil text.
C14_Witness ==
    /\ last.op = "analyze"
    /\ files.thirukkural.status = "unreadable"
    /\ files.kamba_ramayanam.status = "missing"
    /\ is_valid_tamil(last.arg)
    /\ last.result.source = "random_text"
    /\ C14_MissingFileEmptyCorpus

\* C15: search_by_book_and_number(book_key, number) is an exact-key retrieval.
\* When the corpus that book_key names holds a record whose verse_number
\* equals number, the result is a copy of the first such record, with number
\* as a string and book_key added; in every other case, the case that
\* book_key names no corpus included, the result is none.  The corpora are
\* taken as they were loaded: no earlier call has a part in the result.
C15_LookupExact ==
    last.op = "search_by_book_and_number"
        => IF /\ last.arg[1] \in DOMAIN loaded
              /\ \E i \in 1..Len(loaded[last.arg[1]].verses) :
                     stored_verse_number(loaded[last.arg[1]].verses[i]) = last.arg[2]
           THEN /\ last.result.some
                /\ \E i \in 1..Len(loaded[last.arg[1]].verses) :
                       /\ stored_verse_number(loaded[last.arg[1]].verses[i])
                              = last.arg[2]
                       /\ \A j \in 1..(i - 1) :
                              stored_verse_number(loaded[last.arg[1]].verses[j])
                                  # last.arg[2]
                       /\ last.result.record
                              = [k \in DOMAIN loaded[last.arg[1]].verses[i]
                                          \cup { "book_key" } |->
                                    IF k = "book_key" THEN last.arg[1]
                                    ELSE IF k = "verse_number" THEN last.arg[2].digits
                                    ELSE loaded[last.arg[1]].verses[i][k]]
                /\ \A w \in 1..Len(last.writes) :
                       last.writes[w].target.place = "fresh"
           ELSE ~ last.result.some

\* C29: search_by_book_and_number returns none for every book_key that is not
\* the key of a known corpus, in agreement with get_book_metadata, which
\* returns none for such a key; it never returns a record of one corpus
\* labelled with another book_key.
C29_UnknownKeyNone ==
    last.op = "search_by_book_and_number"
        => /\ last.arg[1] \notin { "thirukkural", "kamba_ramayanam" }
                 => /\ ~ get_book_metadata(last.arg[1], corpora).some
                    /\ ~ last.result.some
           /\ last.result.some
                 => /\ get_book_metadata(last.result.record.book_key, corpora).some
                    /\ \E i \in DOMAIN loaded[last.result.record.book_key].verses :
                           loaded[last.result.record.book_key].verses[i].verse
                               = last.result.record.verse

\* ------------------------------------------------------------------------
\* Properties of two concurrent calls (SpecConc)
\* ------------------------------------------------------------------------

\* C13: two analyze calls that run concurrently on one SemanticAnalyzer need
\* no coordination.  Under every interleaving a call that has returned has
\* returned the verse number and the confidence of its own query: the result
\* analyze gives for that text when it runs alone on the loaded database.
C13_ConcurrentAsAlone ==
    \A t \in DOMAIN th :
        th[t].pc = "done"
            => th[t].result = analyze_alone(th[t].text, LoadedDatabase,
                                            ratio[th[t].text])

\* The records of a database whose verse text normalizes to the empty string.
BlankAt(db) == { i \in DOMAIN db.verses : normalize_text(db.verses[i].verse) = << >> }

\* C26: no score computation divides by zero.  For every query and every
\* record, a record with an empty verse text or one without a Tamil character
\* included, the word-overlap ratio is taken as 0 when the query has no word
\* and the length ratio as 0 when the verse is empty, so that scoring never
\* raises.
C26_ScoringNeverRaises ==
    (pc \in {"done", "searched"})
    => /\ ~ raised
       /\ \A common \in 0..MaxWords :
             /\ overlap_ratio(common, 0).num = 0
             /\ ~ overlap_ratio(common, 0).raised
       /\ length_ratio(Len(locals.normalized_query), 0).num = 0
       /\ ~ length_ratio(Len(locals.normalized_query), 0).raised

\* The search is called with a query without any word, and scores a record
\* with a verse text and a record whose verse text is empty.
C26_Witness ==
    /\ pc = "searched"
    /\ locals.normalized_query = << >>
    /\ DistinctWords(locals.normalized_query) = 0
    /\ BlankAt(thirukkural_db) # {}
    /\ BlankAt(thirukkural_db) # DOMAIN thirukkural_db.verses
    /\ ~ raised
    /\ C26_ScoringNeverRaises

\* C27: a record whose verse text normalizes to the empty string gets verse
\* score 0 for every non-empty query, so it is never returned as a match on
\* the strength of its verse text.
C27_BlankVerseScoresZero ==
    (pc = "done" /\ searched /\ ~ is_number_search(locals.normalized_query)
        /\ locals.normalized_query # << >>)
    => /\ \A i \in BlankAt(thirukkural_db) :
             verse_score(locals.normalized_query, thirukkural_db.verses[i].verse,
                         locals["thirukkural"].boost, lib["thirukkural"][i].fuzzy,
                         lib["thirukkural"][i].low) = 0
       /\ \A i \in BlankAt(kamba_db) :
             verse_score(locals.normalized_query, kamba_db.verses[i].verse,
                         locals["kamba_ramayanam"].boost,
                         lib["kamba_ramayanam"][i].fuzzy,
                         lib["kamba_ramayanam"][i].low) = 0
       /\ (match.some /\ normalize_text(match.record.verse) = << >>)
             => match.match_score < 95

\* The final score of record i of a book in the state's search.
ScoreAt(book_key, db, i) ==
    record_score(locals.normalized_query, db.verses[i], locals[book_key].boost,
                 locals.strict, lib[book_key][i])

\* The records of a book that cleared the threshold in force for the book.
ClearedAt(book_key, db) ==
    { i \in DOMAIN db.verses :
        /\ ScoreAt(book_key, db, i) > 0
        /\ ScoreAt(book_key, db, i) >= locals[book_key].threshold }

\* The scores of the records that cleared their threshold.
ClearedScores ==
    { ScoreAt("thirukkural", thirukkural_db, i) :
        i \in ClearedAt("thirukkural", thirukkural_db) }
    \cup { ScoreAt("kamba_ramayanam", kamba_db, i) :
             i \in ClearedAt("kamba_ramayanam", kamba_db) }

\* The first records of a book that cleared the threshold with a given score.
FirstWith(book_key, db, score) ==
    { i \in ClearedAt(book_key, db) :
        /\ ScoreAt(book_key, db, i) = score
        /\ \A j \in ClearedAt(book_key, db) :
              ScoreAt(book_key, db, j) = score => i <= j }

C25_SentimentLabelRule ==
    f_pc = "done"
    => /\ f_sentiment # NoSentiment
       /\ f_sentiment.positive_words = CountWords(Split(f_text), positive_words)
       /\ f_sentiment.negative_words = CountWords(Split(f_text), negative_words)
       /\ f_sentiment.positive_words + f_sentiment.negative_words = 0
             => (f_sentiment.label = "Neutral" /\ f_sentiment.score = 50)
       /\ f_sentiment.positive_words > f_sentiment.negative_words
             => f_sentiment.label = "Positive"
       /\ f_sentiment.negative_words > f_sentiment.positive_words
             => f_sentiment.label = "Negative"
       /\ (f_sentiment.positive_words = f_sentiment.negative_words
              /\ f_sentiment.positive_words > 0)
             => (f_sentiment.label = "Mixed" /\ f_sentiment.score = 50)

\* A text of one positive, one negative and two neutral words: Mixed.
C25_Witness ==
    /\ f_pc = "done"
    /\ f_sentiment.positive_words = 1
    /\ f_sentiment.negative_words = 1
    /\ f_sentiment.neutral_words = 2
    /\ f_sentiment.label = "Mixed"
    /\ C25_SentimentLabelRule

\* C30: the score of the sentiment block is within 0.0 and 1.0 for every pair
\* of positive and negative word counts (in hundredths: 0 <= score <= 100).
C30_SentimentScoreInRange ==
    f_pc = "done" => (0 <= f_sentiment.score /\ f_sentiment.score <= 100)

====
